---- MODULE Spec2Model ----
(***************************************************************************)
(* Model of the OpenHarness streaming engine:                              *)
(*   - the SSE read loop and frame parser   (client/transports/sse.ts)     *)
(*   - the pull bridge SSETransport.stream  (client/transports/sse.ts)     *)
(*   - the tool registry and the agent loop (adapter-anthropic-agent)      *)
(* Text is modelled as a sequence of one-character strings.                *)
(***************************************************************************)
EXTENDS Integers, Sequences, FiniteSets, TLC

(***************************************************************************)
(* Bounds                                                                  *)
(***************************************************************************)
MaxPieces == 4
MaxEvents == 3
MaxIter == 2
MaxBlocks == 3
MaxDeltas == 2
MaxOps == 3
MaxFrames == 2
MaxCalls == 2

VARIABLES
  \* ---- SSE read loop (connect / fetchAndProcess) ----
  response,     \* how the fetch settles: a response (status, body) or a rejection
  fetches,      \* observation: number of fetch() calls
  openCalls,    \* observation: number of options.onOpen calls
  sseErrors,    \* observation: the codes of the errors given to options.onError
  onCloseCalls, \* observation: number of options.onClose calls
  resumeCursor, \* options.lastEventId (<<>> is undefined)
  sentHeader,   \* the Last-Event-ID header of the request (<<>> when not set)
  ctrlAborted,  \* controller.signal.aborted
  closesSeen,   \* observation: close() calls so far, counted up to two
  deliveredAtClose, \* observation: <<frames delivered when close() was first called>>
  tailSplit,    \* observation: some chunk ended inside the last, unterminated frame
  body,         \* the whole text of the response body
  pos,          \* how many characters of body reader.read() has returned
  buffer,       \* let buffer
  delivered,    \* the frames handed to options.onEvent, in order
  lastEventId,  \* let lastEventId (<<>> is undefined)
  readerState,  \* "idle" | "requesting" | "reading" | "closed" (onClose has
                \* been called) | "failed" (onError has been called)
  sepSplit,     \* observation: some chunk ended inside a "\n\n" separator
  \* ---- SSETransport.stream (pull bridge) ----
  events,       \* const events: T[]
  done,         \* let done
  error,        \* let error (TRUE when set)
  resolve,      \* let resolve: "undefined" | "pending" | "called"
  gen,          \* where the generator is suspended
  session,      \* the producer: "none" | "open" | "ended" | "failed"
  closeCalls,   \* number of connection.close() calls
  returnQueued, \* the consumer called return() while the generator awaits
  pushed,       \* observation: the values onEvent parsed, in order
  received,     \* observation: the data payloads given to onEvent, in order
  yielded,      \* observation: the values the consumer received, in order
  \* ---- tool registry ----
  tools,        \* this.tools: a function from the registered names to handlers
  lastInvoke,   \* observation: the last direct invokeTool call and its result
  regLog,       \* observation: the registerTool / unregisterTool calls, in order
  \* ---- agent loop ----
  mode,         \* "execute" | "executeStream" | "sendMessageStream"
  pc,           \* "loopHead" | "streaming" | "creating" | "dispatch" |
                \* "cancelAck" | "finished" | "threw"
  maxIterations,
  iteration,
  requests,     \* observation: number of model requests issued
  messages,     \* const messages: the conversation sent to the model
  emitted,      \* observation: the events yielded, in order
  aborted,      \* options.abortSignal.aborted
  abortedMidStream, \* observation: the abort came while events were still to come
  streamOpen,   \* the backend stream of the current request is open
  phase,        \* the backend's position in the streamed response
  respBlocks,   \* the content blocks of the response (finalMessage.content)
  curBlock,     \* the block the backend is streaming
  blocksSent,   \* content blocks the backend has started in this execution
  deltas,       \* deltas the backend has sent in this execution
  stopReason,   \* finalMessage.stop_reason
  currentToolCall,  \* let currentToolCall (its id, None for null)
  pendingToolCalls, \* the tool calls still to dispatch in this round
  toolResults,  \* const toolResults
  invoked,      \* observation: the ids of the tool calls invoked, in order
  inFlight,     \* the tool call whose handler is running (<<>> for none)
  abortedInFlight,  \* observation: the ids in flight when abort() was called
  nextToolId,   \* the backend's next tool_use id
  totalInputTokens,  \* let totalInputTokens
  totalOutputTokens, \* let totalOutputTokens
  usageLog,     \* observation: the usage of each response, in order
  finalContent, \* execute: let finalContent
  result,       \* execute: the value returned (<<>> while there is none)
  backendThinks,  \* the backend streams thinking blocks
  backendDeltas,  \* observation: the text and thinking deltas the backend sent
  script,       \* observation: the responses given to execute, in order
  firstRun,     \* the first of two runs, once it is over (<<>> before)
  optionTools,  \* options.tools (or the conversation's tools): name -> handler
  advertised,   \* the names of the tools sent to the model (getToolsForExecution)
  \* ---- conversations ----
  convTable,    \* the ids in this.conversations
  convCreated,  \* the ids createConversation has given out
  convMessages, \* conversation.messages of each conversation object
  convCalls,    \* the sendMessage / sendMessageStream calls made, in order
  convRequests  \* observation: model requests issued on behalf of those calls

sseVars == <<response, fetches, openCalls, sseErrors, onCloseCalls, resumeCursor,
             sentHeader, ctrlAborted, closesSeen, deliveredAtClose, tailSplit,
             body, pos, buffer, delivered, lastEventId, readerState, sepSplit>>

bridgeVars == <<events, done, error, resolve, gen, session, closeCalls,
                returnQueued, pushed, received, yielded>>

regVars == <<tools, lastInvoke, regLog>>

loopVars == <<mode, pc, maxIterations, iteration, requests, messages, emitted,
              aborted, abortedMidStream, streamOpen, phase, respBlocks, curBlock,
              blocksSent, deltas, stopReason, currentToolCall, pendingToolCalls, toolResults,
              invoked, inFlight, abortedInFlight, nextToolId,
              totalInputTokens, totalOutputTokens, usageLog, finalContent, result,
              backendThinks, backendDeltas, script, firstRun,
              optionTools, advertised>>

optVars == <<optionTools, advertised>>

usageVars == <<totalInputTokens, totalOutputTokens, usageLog, finalContent, result>>

envVars == <<backendThinks, backendDeltas, script, firstRun>>

convVars == <<convTable, convCreated, convMessages, convCalls, convRequests>>

vars == <<sseVars, bridgeVars, regVars, loopVars, convVars>>

(***************************************************************************)
(* Text helpers (String.prototype.split / trim / startsWith / slice)       *)
(***************************************************************************)
NL == "\n"

IsSpace(c) == c \in {" ", "\n", "\r", "\t"}

RECURSIVE TrimStart(_)
TrimStart(s) ==
  IF s # <<>> /\ IsSpace(Head(s)) THEN TrimStart(Tail(s)) ELSE s

RECURSIVE TrimEnd(_)
TrimEnd(s) ==
  IF s # <<>> /\ IsSpace(s[Len(s)]) THEN TrimEnd(SubSeq(s, 1, Len(s) - 1)) ELSE s

Trim(s) == TrimEnd(TrimStart(s))

StartsWith(s, p) == Len(s) >= Len(p) /\ SubSeq(s, 1, Len(p)) = p

Slice(s, n) == SubSeq(s, n + 1, Len(s))

\* index of the first occurrence of sep in s at or after i, 0 when there is none
RECURSIVE IndexOf(_, _, _)
IndexOf(s, sep, i) ==
  IF i + Len(sep) - 1 > Len(s) THEN 0
  ELSE IF SubSeq(s, i, i + Len(sep) - 1) = sep THEN i
  ELSE IndexOf(s, sep, i + 1)

\* s.split(sep) for a non-empty separator
RECURSIVE Split(_, _)
Split(s, sep) ==
  LET i == IndexOf(s, sep, 1) IN
  IF i = 0 THEN <<s>>
  ELSE <<SubSeq(s, 1, i - 1)>> \o Split(SubSeq(s, i + Len(sep), Len(s)), sep)

\* lines.join("\n")
RECURSIVE Join(_)
Join(ls) ==
  IF ls = <<>> THEN <<>>
  ELSE IF Len(ls) = 1 THEN ls[1]
  ELSE ls[1] \o <<NL>> \o Join(Tail(ls))

(***************************************************************************)
(* parseSSEEvent                                                           *)
(***************************************************************************)
IdPrefix == <<"i", "d", ":">>
EventPrefix == <<"e", "v", "e", "n", "t", ":">>
DataPrefix == <<"d", "a", "t", "a", ":">>

\* the loop over lines; acc = [id, event, dataLines], <<>> is undefined
RECURSIVE ParseLines(_, _)
ParseLines(lines, acc) ==
  IF lines = <<>> THEN acc
  ELSE
    LET line == Head(lines) IN
    ParseLines(Tail(lines),
      IF StartsWith(line, IdPrefix)
        THEN [acc EXCEPT !.id = <<Trim(Slice(line, 3))>>]
      ELSE IF StartsWith(line, EventPrefix)
        THEN [acc EXCEPT !.event = <<Trim(Slice(line, 6))>>]
      ELSE IF StartsWith(line, DataPrefix)
        THEN [acc EXCEPT !.dataLines = Append(@, Trim(Slice(line, 5)))]
      ELSE acc)

\* <<>> is null, <<frame>> is the parsed event
parseSSEEventKeepEmpty(eventText) ==
  LET r == ParseLines(Split(eventText, <<NL>>),
                      [id |-> <<>>, event |-> <<>>, dataLines |-> <<>>]) IN
  <<[id |-> r.id, event |-> r.event, data |-> Join(r.dataLines)]>>

parseSSEEvent(eventText) ==
  LET r == ParseLines(Split(eventText, <<NL>>),
                      [id |-> <<>>, event |-> <<>>, dataLines |-> <<>>]) IN
  IF Len(r.dataLines) = 0 THEN <<>>
  ELSE <<[id |-> r.id, event |-> r.event, data |-> Join(r.dataLines)]>>

\* the frames of the event texts that are non-blank and parse, in order
RECURSIVE FramesOf(_)
FramesOf(texts) ==
  IF texts = <<>> THEN <<>>
  ELSE (IF Trim(Head(texts)) # <<>> THEN parseSSEEvent(Head(texts)) ELSE <<>>)
       \o FramesOf(Tail(texts))

\* if (event.id) lastEventId = event.id, over the frames in order
RECURSIVE CursorAfter(_, _)
CursorAfter(cur, frames) ==
  IF frames = <<>> THEN cur
  ELSE CursorAfter(IF Head(frames).id # <<>> /\ Head(frames).id # << <<>> >>
                     THEN Head(frames).id ELSE cur,
                   Tail(frames))

(***************************************************************************)
(* connect: the request of fetchAndProcess                                 *)
(***************************************************************************)
\* the statuses the server answers with
Statuses == {200, 404, 500}

\* how the fetch settles
Rejected == [kind |-> "rejected", status |-> 0, hasBody |-> FALSE]

Responses ==
  { Rejected }
  \cup { [kind |-> "response", status |-> st, hasBody |-> b] :
           st \in Statuses, b \in BOOLEAN }

\* response.ok
ResponseOkAlways(r) == TRUE
ResponseOk(r) == r.status >= 200 /\ r.status <= 299

\* if (options.lastEventId): undefined and "" are falsy
Truthy(x) == x # <<>> /\ x # << <<>> >>

\* connect(options): the headers are built, lastEventId is initialised and
\* fetchAndProcess() is started, which issues the fetch
Connect ==
  /\ readerState = "idle"
  /\ readerState' = "requesting"
  /\ fetches' = fetches + 1
  /\ sentHeader' = IF Truthy(resumeCursor) THEN resumeCursor ELSE <<>>
  /\ lastEventId' = resumeCursor
  /\ UNCHANGED <<response, openCalls, sseErrors, onCloseCalls, resumeCursor,
                 ctrlAborted, closesSeen, deliveredAtClose, tailSplit,
                 body, pos, buffer, delivered, sepSplit>>
  /\ UNCHANGED <<bridgeVars, regVars, loopVars, convVars>>

\* await fetch(...) settles: the status and body checks, onOpen, or the catch
FetchSettled ==
  /\ readerState = "requesting"
  /\ ~ctrlAborted
  /\ IF response.kind = "rejected"
       THEN /\ sseErrors' = Append(sseErrors, "fetch_rejected")
            /\ readerState' = "failed"
            /\ UNCHANGED openCalls
     ELSE IF ~ResponseOk(response)
       THEN /\ sseErrors' = Append(sseErrors, "sse_connection_failed")
            /\ readerState' = "failed"
            /\ UNCHANGED openCalls
     ELSE IF ~response.hasBody
       THEN /\ sseErrors' = Append(sseErrors, "sse_no_body")
            /\ readerState' = "failed"
            /\ UNCHANGED openCalls
     ELSE /\ openCalls' = openCalls + 1
          /\ readerState' = "reading"
          /\ UNCHANGED sseErrors
  /\ UNCHANGED <<response, fetches, onCloseCalls, resumeCursor, sentHeader,
                 ctrlAborted, closesSeen, deliveredAtClose, tailSplit,
                 body, pos, buffer, delivered, lastEventId, sepSplit>>
  /\ UNCHANGED <<bridgeVars, regVars, loopVars, convVars>>

\* connection.close(): controller.abort()
CloseCallsBack ==
  /\ readerState # "idle"
  /\ ctrlAborted' = TRUE
  /\ closesSeen' = IF closesSeen < 2 THEN closesSeen + 1 ELSE closesSeen
  /\ deliveredAtClose' = IF deliveredAtClose = <<>> THEN <<Len(delivered)>>
                                                   ELSE deliveredAtClose
  /\ onCloseCalls' = onCloseCalls + 1
  /\ UNCHANGED <<response, fetches, openCalls, sseErrors, resumeCursor,
                 sentHeader, tailSplit,
                 body, pos, buffer, delivered, lastEventId, readerState, sepSplit>>
  /\ UNCHANGED <<bridgeVars, regVars, loopVars, convVars>>

Close ==
  /\ readerState # "idle"
  /\ ctrlAborted' = TRUE
  /\ closesSeen' = IF closesSeen < 2 THEN closesSeen + 1 ELSE closesSeen
  /\ deliveredAtClose' = IF deliveredAtClose = <<>> THEN <<Len(delivered)>>
                                                   ELSE deliveredAtClose
  /\ UNCHANGED <<response, fetches, openCalls, sseErrors, onCloseCalls, resumeCursor,
                 sentHeader, tailSplit,
                 body, pos, buffer, delivered, lastEventId, readerState, sepSplit>>
  /\ UNCHANGED <<bridgeVars, regVars, loopVars, convVars>>

\* the pending fetch or reader.read() rejects with AbortError: the catch
\* calls onClose and returns
AbortSettlesAsError ==
  /\ readerState \in {"requesting", "reading"}
  /\ ctrlAborted
  /\ sseErrors' = Append(sseErrors, "AbortError")
  /\ readerState' = "failed"
  /\ UNCHANGED <<response, fetches, openCalls, onCloseCalls, resumeCursor,
                 sentHeader, ctrlAborted, closesSeen, deliveredAtClose, tailSplit,
                 body, pos, buffer, delivered, lastEventId, sepSplit>>
  /\ UNCHANGED <<bridgeVars, regVars, loopVars, convVars>>

AbortSettles ==
  /\ readerState \in {"requesting", "reading"}
  /\ ctrlAborted
  /\ onCloseCalls' = onCloseCalls + 1
  /\ readerState' = "cancelled"
  /\ UNCHANGED <<response, fetches, openCalls, sseErrors, resumeCursor,
                 sentHeader, ctrlAborted, closesSeen, deliveredAtClose, tailSplit,
                 body, pos, buffer, delivered, lastEventId, sepSplit>>
  /\ UNCHANGED <<bridgeVars, regVars, loopVars, convVars>>

\* reader.read() rejects for another reason (the connection drops): the catch
\* calls onError
ReadFailAlsoCloses ==
  /\ readerState = "reading"
  /\ ~ctrlAborted
  /\ sseErrors' = Append(sseErrors, "read_failed")
  /\ readerState' = "failed"
  /\ onCloseCalls' = onCloseCalls + 1
  /\ UNCHANGED <<response, fetches, openCalls, resumeCursor,
                 sentHeader, ctrlAborted, closesSeen, deliveredAtClose, tailSplit,
                 body, pos, buffer, delivered, lastEventId, sepSplit>>
  /\ UNCHANGED <<bridgeVars, regVars, loopVars, convVars>>

ReadFail ==
  /\ readerState = "reading"
  /\ ~ctrlAborted
  /\ sseErrors' = Append(sseErrors, "read_failed")
  /\ readerState' = "failed"
  /\ UNCHANGED <<response, fetches, openCalls, onCloseCalls, resumeCursor,
                 sentHeader, ctrlAborted, closesSeen, deliveredAtClose, tailSplit,
                 body, pos, buffer, delivered, lastEventId, sepSplit>>
  /\ UNCHANGED <<bridgeVars, regVars, loopVars, convVars>>

(***************************************************************************)
(* The read loop of fetchAndProcess                                        *)
(***************************************************************************)
\* events = buffer.split("\n\n")
SplitEvents(buf) == Split(buf, <<NL, NL>>)

\* buffer = events.pop() || ""
KeepTailBroken(parts) == <<>>
KeepTail(parts) == parts[Len(parts)]

\* the elements left in events after the pop
CompleteEventsAll(parts) == parts
CompleteEvents(parts) == SubSeq(parts, 1, Len(parts) - 1)

\* one reader.read() that returns a chunk of k characters
ReadChunk(k) ==
  /\ readerState = "reading"
  /\ ~ctrlAborted
  /\ k \in 1..(Len(body) - pos)
  /\ LET chunk == SubSeq(body, pos + 1, pos + k)
         parts == SplitEvents(buffer \o chunk)
         frames == FramesOf(CompleteEvents(parts))
     IN /\ buffer' = KeepTail(parts)
        /\ delivered' = delivered \o frames
        /\ lastEventId' = CursorAfter(lastEventId, frames)
        /\ tailSplit' = (tailSplit \/ (/\ pos + k < Len(body)
                                       /\ KeepTail(parts) # <<>>
                                       /\ IndexOf(body, <<NL, NL>>, pos + k) = 0))
  /\ pos' = pos + k
  /\ sepSplit' = (sepSplit \/ (pos + k < Len(body) /\ body[pos + k] = NL
                                /\ body[pos + k + 1] = NL))
  /\ UNCHANGED <<response, fetches, openCalls, sseErrors, onCloseCalls, resumeCursor,
                 sentHeader, ctrlAborted, closesSeen, deliveredAtClose, body, readerState>>
  /\ UNCHANGED <<bridgeVars, regVars, loopVars, convVars>>

\* the same read, where the onEvent callback of the j-th frame of the chunk
\* calls connection.close(): the for loop over the events goes on
ReadChunkClosing(k, j) ==
  /\ readerState = "reading"
  /\ ~ctrlAborted
  /\ k \in 1..(Len(body) - pos)
  /\ LET chunk == SubSeq(body, pos + 1, pos + k)
         parts == SplitEvents(buffer \o chunk)
         frames == FramesOf(CompleteEvents(parts))
     IN /\ j \in 1..Len(frames)
        /\ buffer' = KeepTail(parts)
        /\ delivered' = delivered \o frames
        /\ lastEventId' = CursorAfter(lastEventId, frames)
        /\ deliveredAtClose' = <<Len(delivered) + j>>
        /\ tailSplit' = (tailSplit \/ (/\ pos + k < Len(body)
                                       /\ KeepTail(parts) # <<>>
                                       /\ IndexOf(body, <<NL, NL>>, pos + k) = 0))
  /\ ctrlAborted' = TRUE
  /\ closesSeen' = closesSeen + 1
  /\ pos' = pos + k
  /\ sepSplit' = (sepSplit \/ (pos + k < Len(body) /\ body[pos + k] = NL
                                /\ body[pos + k + 1] = NL))
  /\ UNCHANGED <<response, fetches, openCalls, sseErrors, onCloseCalls, resumeCursor,
                 sentHeader, body, readerState>>
  /\ UNCHANGED <<bridgeVars, regVars, loopVars, convVars>>

\* the final frame of the remaining buffer: if (buffer.trim()) parseSSEEvent(buffer)
FlushNothing(buf) == <<>>
Flush(buf) == FramesOf(<<buf>>)

\* reader.read() returns done: flush the remaining buffer, then onClose
ReadDone ==
  /\ readerState = "reading"
  /\ ~ctrlAborted
  /\ pos = Len(body)
  /\ LET frames == Flush(buffer)
     IN /\ delivered' = delivered \o frames
        /\ lastEventId' = CursorAfter(lastEventId, frames)
  /\ readerState' = "closed"
  /\ onCloseCalls' = onCloseCalls + 1
  /\ UNCHANGED <<response, fetches, openCalls, sseErrors, resumeCursor,
                 sentHeader, ctrlAborted, closesSeen, deliveredAtClose, tailSplit,
                 body, pos, buffer, sepSplit>>
  /\ UNCHANGED <<bridgeVars, regVars, loopVars, convVars>>

(***************************************************************************)
(* SSETransport.stream: the callbacks it passes to connect                 *)
(***************************************************************************)
\* data payloads of frames; JSON.parse gives a value or throws
Payloads == {"1", "2", "{}", "oops", ""}

JsonOk(p) == p \in {"1", "2", "{}"}

JsonParse(p) == CASE p = "1" -> 1 [] p = "2" -> 2 [] p = "{}" -> 0

\* resolve?.()
CallResolve(r) == IF r = "pending" THEN "called" ELSE r

\* onEvent: (event) => { try { events.push(JSON.parse(event.data)); resolve?.() } catch {} }
OnEventNoCatch(p) ==
  /\ session = "open"
  /\ Len(received) < MaxEvents
  /\ received' = Append(received, p)
  /\ IF JsonOk(p)
       THEN /\ events' = Append(events, JsonParse(p))
            /\ pushed' = Append(pushed, JsonParse(p))
            /\ resolve' = CallResolve(resolve)
            /\ UNCHANGED <<error, session>>
       ELSE /\ error' = TRUE
            /\ session' = "failed"
            /\ resolve' = CallResolve(resolve)
            /\ UNCHANGED <<events, pushed>>
  /\ UNCHANGED <<done, gen, closeCalls, returnQueued, yielded>>
  /\ UNCHANGED <<sseVars, regVars, loopVars, convVars>>

OnEvent(p) ==
  /\ session = "open"
  /\ Len(received) < MaxEvents
  /\ received' = Append(received, p)
  /\ IF JsonOk(p)
       THEN /\ events' = Append(events, JsonParse(p))
            /\ pushed' = Append(pushed, JsonParse(p))
            /\ resolve' = CallResolve(resolve)
       ELSE UNCHANGED <<events, pushed, resolve>>
  /\ UNCHANGED <<done, error, gen, session, closeCalls, returnQueued, yielded>>
  /\ UNCHANGED <<sseVars, regVars, loopVars, convVars>>

\* onError: (e) => { error = e; resolve?.() }
OnError ==
  /\ session = "open"
  /\ closeCalls = 0
  /\ error' = TRUE
  /\ resolve' = CallResolve(resolve)
  /\ session' = "failed"
  /\ UNCHANGED <<events, done, gen, closeCalls, returnQueued, pushed, received, yielded>>
  /\ UNCHANGED <<sseVars, regVars, loopVars, convVars>>

\* onClose: () => { done = true; resolve?.() }
OnCloseNoWake ==
  /\ session = "open"
  /\ done' = TRUE
  /\ session' = "ended"
  /\ UNCHANGED <<events, error, resolve, gen, closeCalls, returnQueued, pushed, received, yielded>>
  /\ UNCHANGED <<sseVars, regVars, loopVars, convVars>>

OnClose ==
  /\ session = "open"
  /\ done' = TRUE
  /\ resolve' = CallResolve(resolve)
  /\ session' = "ended"
  /\ UNCHANGED <<events, error, gen, closeCalls, returnQueued, pushed, received, yielded>>
  /\ UNCHANGED <<sseVars, regVars, loopVars, convVars>>

(***************************************************************************)
(* SSETransport.stream: the generator body                                 *)
(***************************************************************************)
\* the generator runs from a resumption to its next yield, await or end
\*   q, d, e: events, done, error as the run finds them
\* events.shift() returns the first element
ShiftedLast(q) == q[Len(q)]
Shifted(q) == Head(q)

\* both loops yield while events.length > 0
MustYieldNoDrain(q, d, e) == q # <<>> /\ ~d /\ ~e
MustYield(q, d, e) == q # <<>>

RunLoop(q, d, e) ==
  IF MustYield(q, d, e)
    THEN \* yield events.shift()  (main loop or drain loop)
         /\ events' = Tail(q)
         /\ yielded' = Append(yielded, Shifted(q))
         /\ IF returnQueued
              THEN \* the queued return() resumes the generator: finally
                   /\ gen' = "cancelled"
                   /\ closeCalls' = closeCalls + 1
                   /\ returnQueued' = FALSE
              ELSE /\ gen' = IF ~d /\ ~e THEN "yieldMain" ELSE "yieldDrain"
                   /\ UNCHANGED <<closeCalls, returnQueued>>
         /\ resolve' = resolve
    ELSE IF ~d /\ ~e
    THEN \* await new Promise((r) => { resolve = r })
         /\ gen' = "waiting"
         /\ resolve' = "pending"
         /\ UNCHANGED <<events, yielded, closeCalls, returnQueued>>
    ELSE \* if (error) throw error; finally connection.close()
         /\ gen' = IF e THEN "threw" ELSE "returned"
         /\ closeCalls' = closeCalls + 1
         /\ returnQueued' = FALSE
         /\ resolve' = resolve
         /\ UNCHANGED <<events, yielded>>

\* first next(): await this.connect(...) and enter the loop
Start ==
  /\ gen = "start"
  /\ session' = "open"
  /\ RunLoop(events, done, error)
  /\ UNCHANGED <<done, error, pushed, received>>
  /\ UNCHANGED <<sseVars, regVars, loopVars, convVars>>

\* next() on a generator suspended at a yield
Pull ==
  /\ gen \in {"yieldMain", "yieldDrain"}
  /\ RunLoop(events, done, error)
  /\ UNCHANGED <<done, error, session, pushed, received>>
  /\ UNCHANGED <<sseVars, regVars, loopVars, convVars>>

\* the awaited promise was resolved: the generator continues
Resume ==
  /\ gen = "waiting"
  /\ resolve = "called"
  /\ RunLoop(events, done, error)
  /\ UNCHANGED <<done, error, session, pushed, received>>
  /\ UNCHANGED <<sseVars, regVars, loopVars, convVars>>

\* return() (a break out of for await): the finally block runs
ReturnNoFinally ==
  /\ gen \in {"start", "yieldMain", "yieldDrain"}
  /\ gen' = "cancelled"
  /\ UNCHANGED <<events, done, error, resolve, session, closeCalls,
                 returnQueued, pushed, received, yielded>>
  /\ UNCHANGED <<sseVars, regVars, loopVars, convVars>>

Return ==
  /\ gen \in {"start", "yieldMain", "yieldDrain"}
  /\ gen' = "cancelled"
  /\ closeCalls' = IF gen = "start" THEN closeCalls ELSE closeCalls + 1
  /\ UNCHANGED <<events, done, error, resolve, session, returnQueued, pushed, received, yielded>>
  /\ UNCHANGED <<sseVars, regVars, loopVars, convVars>>

\* return() while the generator is blocked on the promise: queued
QueueReturn ==
  /\ gen = "waiting"
  /\ ~returnQueued
  /\ returnQueued' = TRUE
  /\ UNCHANGED <<events, done, error, resolve, gen, session, closeCalls, pushed, received, yielded>>
  /\ UNCHANGED <<sseVars, regVars, loopVars, convVars>>
(***************************************************************************)
(* Tool registry (AnthropicAgentAdapter.tools)                             *)
(***************************************************************************)
ToolNames == {"foo", "bar"}

\* what a registered handler does when called
Handlers == {"ok", "fails", "throws", "rejects"}

\* tool.handler(input): the value it resolves to, the error it throws, or the
\* error its promise rejects with
HandlerOutcome(h) ==
  CASE h = "ok" -> [kind |-> "return",
                    value |-> [success |-> TRUE, output |-> "out", error |-> ""]]
    [] h = "fails" -> [kind |-> "return",
                       value |-> [success |-> FALSE, output |-> "", error |-> "failed"]]
    [] h = "throws" -> [kind |-> "throw", message |-> "boom"]
    [] h = "rejects" -> [kind |-> "reject", message |-> "nope"]

\* the error text of the unknown-tool result
NotFoundError(toolId) == "Tool not found: " \o toolId

\* invokeTool(toolId, input) on the registry reg
invokeToolUnchecked(reg, toolId) ==
  IF toolId \notin DOMAIN reg
    THEN [kind |-> "throw", message |-> "TypeError"]
    ELSE LET o == HandlerOutcome(reg[toolId]) IN
         IF o.kind = "return" THEN o
         ELSE [kind |-> "return",
               value |-> [success |-> FALSE, output |-> "", error |-> o.message]]

\* try { return tool.handler(input) } without the await: a rejection passes
invokeToolNoAwait(reg, toolId) ==
  IF toolId \notin DOMAIN reg
    THEN [kind |-> "return",
          value |-> [success |-> FALSE, output |-> "", error |-> NotFoundError(toolId)]]
    ELSE LET o == HandlerOutcome(reg[toolId]) IN
         IF o.kind = "return" THEN o
         ELSE IF o.kind = "reject" THEN [kind |-> "throw", message |-> o.message]
         ELSE [kind |-> "return",
               value |-> [success |-> FALSE, output |-> "", error |-> o.message]]

invokeTool(reg, toolId) ==
  IF toolId \notin DOMAIN reg
    THEN [kind |-> "return",
          value |-> [success |-> FALSE, output |-> "", error |-> NotFoundError(toolId)]]
    ELSE LET o == HandlerOutcome(reg[toolId]) IN
         IF o.kind = "return" THEN o
         ELSE [kind |-> "return",
               value |-> [success |-> FALSE, output |-> "", error |-> o.message]]

\* registerTool(tool): this.tools.set(tool.name, tool)
registerToolKeepFirst(name, h) ==
  /\ Len(regLog) < MaxOps
  /\ tools' = [n \in (DOMAIN tools) \cup {name} |->
                 IF n \in DOMAIN tools THEN tools[n] ELSE h]
  /\ regLog' = Append(regLog, [op |-> "register", name |-> name, handler |-> h,
                               ret |-> TRUE])
  /\ UNCHANGED <<lastInvoke, loopVars, sseVars, bridgeVars, convVars>>

registerTool(name, h) ==
  /\ Len(regLog) < MaxOps
  /\ tools' = [n \in (DOMAIN tools) \cup {name} |-> IF n = name THEN h ELSE tools[n]]
  /\ regLog' = Append(regLog, [op |-> "register", name |-> name, handler |-> h,
                               ret |-> TRUE])
  /\ UNCHANGED <<lastInvoke, loopVars, sseVars, bridgeVars, convVars>>

\* unregisterTool(name): return this.tools.delete(name)
unregisterTool(name) ==
  /\ Len(regLog) < MaxOps
  /\ tools' = [n \in (DOMAIN tools) \ {name} |-> tools[n]]
  /\ regLog' = Append(regLog, [op |-> "unregister", name |-> name, handler |-> "",
                               ret |-> name \in DOMAIN tools])
  /\ UNCHANGED <<lastInvoke, loopVars, sseVars, bridgeVars, convVars>>

\* a direct call of invokeTool(toolId, {})
InvokeDirect(toolId) ==
  /\ lastInvoke' = <<[toolId |-> toolId,
                      known |-> toolId \in DOMAIN tools,
                      handler |-> IF toolId \in DOMAIN tools THEN tools[toolId] ELSE "",
                      at |-> Len(regLog),
                      result |-> invokeTool(tools, toolId)]>>
  /\ UNCHANGED <<tools, regLog, loopVars, sseVars, bridgeVars, convVars>>

(***************************************************************************)
(* The model backend: the events of one streamed response                  *)
(*   phase: "begin" -> "between" -> ("inText" | "inTool" -> "between")*    *)
(*          -> "ended" (message_stop delivered)                            *)
(***************************************************************************)
\* the names of the tools the model asks for
ModelToolNames == {"foo"}

None == 0

StopReasons == {"end_turn", "tool_use"}

TextBlock(t) == [type |-> "text", id |-> None, name |-> "", text |-> t]

ToolUseBlock(id, name) == [type |-> "tool_use", id |-> id, name |-> name, text |-> ""]

ThinkingBlock == [type |-> "thinking", id |-> None, name |-> "", text |-> ""]

\* the stream events a backend that answers freely may deliver next
FreeStreamEvents ==
  CASE phase = "begin" -> { [type |-> "message_start"] }
    [] phase = "between" ->
         (IF blocksSent < MaxBlocks
            THEN { [type |-> "content_block_start", block |-> TextBlock("")] }
                 \cup { [type |-> "content_block_start",
                         block |-> ToolUseBlock(nextToolId, n)] : n \in ModelToolNames }
                 \cup (IF backendThinks
                         THEN { [type |-> "content_block_start", block |-> ThinkingBlock] }
                         ELSE {})
            ELSE {})
         \cup { [type |-> "message_stop", stop_reason |-> r] : r \in StopReasons }
    [] phase = "inText" ->
         (IF deltas < MaxDeltas
            THEN { [type |-> "content_block_delta", delta |-> "text_delta", text |-> "a"] }
            ELSE {})
         \cup { [type |-> "content_block_stop"] }
    [] phase = "inTool" ->
         (IF deltas < MaxDeltas
            THEN { [type |-> "content_block_delta", delta |-> "input_json_delta", text |-> "{"] }
            ELSE {})
         \cup { [type |-> "content_block_stop"] }
    [] phase = "inThinking" ->
         (IF deltas < MaxDeltas
            THEN { [type |-> "content_block_delta", delta |-> "thinking_delta", text |-> "t"] }
            ELSE {})
         \cup { [type |-> "content_block_stop"] }
    [] OTHER -> {}

\* the stream events of a backend that gives the response rsp again
ScriptedStreamEvents(rsp) ==
  LET k == Len(respBlocks) + 1 IN
  CASE phase = "begin" -> { [type |-> "message_start"] }
    [] phase = "between" ->
         IF k <= Len(rsp.blocks)
           THEN { [type |-> "content_block_start",
                   block |-> IF rsp.blocks[k].type = "text" THEN TextBlock("")
                                                            ELSE rsp.blocks[k]] }
           ELSE { [type |-> "message_stop", stop_reason |-> rsp.stop] }
    [] phase = "inText" ->
         IF curBlock.text # rsp.blocks[k].text
           THEN { [type |-> "content_block_delta", delta |-> "text_delta",
                   text |-> rsp.blocks[k].text] }
           ELSE { [type |-> "content_block_stop"] }
    [] phase = "inTool" -> { [type |-> "content_block_stop"] }
    [] OTHER -> {}

\* the stream events the backend may deliver next: in the second of two
\* runs it behaves as it did in the first
NextStreamEvents ==
  IF firstRun # <<>> /\ requests \in 1..Len(script)
    THEN ScriptedStreamEvents(script[requests])
    ELSE FreeStreamEvents

\* the backend's side of delivering event ev
BackendAdvance(ev) ==
  CASE ev.type = "message_start" ->
         /\ phase' = "between"
         /\ UNCHANGED <<respBlocks, curBlock, blocksSent, deltas, stopReason, nextToolId>>
    [] ev.type = "content_block_start" ->
         /\ phase' = CASE ev.block.type = "text" -> "inText"
                        [] ev.block.type = "tool_use" -> "inTool"
                        [] OTHER -> "inThinking"
         /\ curBlock' = ev.block
         /\ blocksSent' = blocksSent + 1
         /\ nextToolId' = IF ev.block.type = "tool_use" THEN nextToolId + 1 ELSE nextToolId
         /\ UNCHANGED <<respBlocks, deltas, stopReason>>
    [] ev.type = "content_block_delta" ->
         /\ deltas' = deltas + 1
         /\ curBlock' = IF ev.delta = "text_delta"
                          THEN [curBlock EXCEPT !.text = @ \o ev.text] ELSE curBlock
         /\ UNCHANGED <<phase, respBlocks, blocksSent, stopReason, nextToolId>>
    [] ev.type = "content_block_stop" ->
         /\ phase' = "between"
         /\ respBlocks' = Append(respBlocks, curBlock)
         /\ UNCHANGED <<curBlock, blocksSent, deltas, stopReason, nextToolId>>
    [] ev.type = "message_stop" ->
         /\ phase' = "ended"
         /\ stopReason' = ev.stop_reason
         /\ UNCHANGED <<respBlocks, curBlock, blocksSent, deltas, nextToolId>>

\* whole responses, for the non-streaming messages.create
BlockKinds ==
  { TextBlock(""), TextBlock("a") }
  \cup { ToolUseBlock(None, n) : n \in ModelToolNames }

ResponseShapes == UNION { [1..n -> BlockKinds] : n \in 0..MaxBlocks }

\* the deltas of a whole response: one per character of text
RECURSIVE TextLen(_)
TextLen(bs) == IF bs = <<>> THEN 0 ELSE Len(Head(bs).text) + TextLen(Tail(bs))

\* the tool_use blocks get fresh ids, first + 0, first + 1, ...
RECURSIVE AssignIds(_, _)
AssignIds(bs, first) ==
  IF bs = <<>> THEN <<>>
  ELSE IF Head(bs).type = "tool_use"
    THEN <<[Head(bs) EXCEPT !.id = first]>> \o AssignIds(Tail(bs), first + 1)
    ELSE <<Head(bs)>> \o AssignIds(Tail(bs), first)

(***************************************************************************)
(* The agent loop: execute, executeStream, executeStreamWithHistory        *)
(***************************************************************************)
Streaming == mode \in {"executeStream", "sendMessageStream"}

ProgressEvent(i) == [type |-> "progress", step_number |-> i]

CancelledEvent == [type |-> "error", code |-> "cancelled", recoverable |-> FALSE]

\* usage: { input_tokens, output_tokens, total_tokens } (duration_ms is left out)
DoneEvent(i, o) ==
  [type |-> "done",
   usage |-> [input_tokens |-> i, output_tokens |-> o, total_tokens |-> i + o]]

\* execute's return value: output and usage (toolCalls and durationMs are left out)
ExecuteResult(out, i, o) ==
  [output |-> out,
   usage |-> [inputTokens |-> i, outputTokens |-> o, totalTokens |-> i + o]]

\* response.usage of the backend: the input grows with the conversation
\* sent, the output with the content returned
InputTokensOf(msgs) == Len(msgs)
OutputTokensOf(blocks) == 1 + Len(blocks) + TextLen(blocks)

\* totalInputTokens += ..., totalOutputTokens += ...
AddTokensOverwrite(total, n) == n
AddTokens(total, n) == total + n

\* finalContent += block.text over the text blocks
RECURSIVE TextOf(_)
TextOf(bs) ==
  IF bs = <<>> THEN ""
  ELSE (IF Head(bs).type = "text" THEN Head(bs).text ELSE "") \o TextOf(Tail(bs))

\* what the stream-event switch yields for ev, and the new currentToolCall:
\* executeStream
SwitchExecuteStreamUnguarded(ev, cur) ==
  CASE ev.type = "content_block_start" /\ ev.block.type = "tool_use" ->
         [out |-> <<[type |-> "tool_call_start", id |-> ev.block.id, name |-> ev.block.name]>>,
          cur |-> ev.block.id]
    [] ev.type = "content_block_delta" /\ ev.delta = "text_delta" ->
         [out |-> <<[type |-> "text", content |-> ev.text]>>, cur |-> cur]
    [] ev.type = "content_block_delta" /\ ev.delta = "input_json_delta" ->
         [out |-> <<[type |-> "tool_call_delta", id |-> cur]>>, cur |-> cur]
    [] ev.type = "content_block_stop" ->
         [out |-> <<[type |-> "tool_call_end", id |-> cur]>>, cur |-> cur]
    [] OTHER -> [out |-> <<>>, cur |-> cur]
SwitchExecuteStream(ev, cur) ==
  CASE ev.type = "content_block_start" /\ ev.block.type = "tool_use" ->
         [out |-> <<[type |-> "tool_call_start", id |-> ev.block.id, name |-> ev.block.name]>>,
          cur |-> ev.block.id]
    [] ev.type = "content_block_delta" /\ ev.delta = "text_delta" ->
         [out |-> <<[type |-> "text", content |-> ev.text]>>, cur |-> cur]
    [] ev.type = "content_block_delta" /\ ev.delta = "input_json_delta" ->
         [out |-> IF cur # None THEN <<[type |-> "tool_call_delta", id |-> cur]>> ELSE <<>>,
          cur |-> cur]
    [] ev.type = "content_block_stop" ->
         [out |-> IF cur # None THEN <<[type |-> "tool_call_end", id |-> cur]>> ELSE <<>>,
          cur |-> cur]
    [] OTHER -> [out |-> <<>>, cur |-> cur]

\* executeStreamWithHistory
SwitchWithHistory(ev, cur) ==
  CASE ev.type = "content_block_start" /\ ev.block.type = "tool_use" ->
         [out |-> <<[type |-> "tool_call_start", id |-> ev.block.id, name |-> ev.block.name]>>,
          cur |-> ev.block.id]
    [] ev.type = "content_block_delta" /\ ev.delta = "text_delta" ->
         [out |-> <<[type |-> "text", content |-> ev.text]>>, cur |-> cur]
    [] ev.type = "content_block_stop" ->
         [out |-> IF cur # None THEN <<[type |-> "tool_call_end", id |-> cur]>> ELSE <<>>,
          cur |-> None]
    [] OTHER -> [out |-> <<>>, cur |-> cur]

\* pendingToolCalls: the tool_use blocks of the final message, in order
PendingOf(blocks) == SelectSeq(blocks, LAMBDA b : b.type = "tool_use")

\* while (iteration < maxIterations)
LoopContinuesOffByOne(i, max) == i <= max
LoopContinues(i, max) == i < max

\* iteration++
IterationStuck(i) == i
Incremented(i) == i + 1

\* the top of the while loop: the next model request, or the exit to done
LoopHead ==
  /\ pc = "loopHead"
  /\ IF LoopContinues(iteration, maxIterations)
       THEN /\ iteration' = Incremented(iteration)
            /\ requests' = requests + 1
            /\ emitted' = IF mode = "executeStream"
                            THEN Append(emitted, ProgressEvent(Incremented(iteration)))
                            ELSE emitted
            /\ pc' = IF Streaming THEN "streaming" ELSE "creating"
            /\ streamOpen' = Streaming
            /\ phase' = IF Streaming THEN "begin" ELSE phase
            /\ respBlocks' = <<>>
            /\ currentToolCall' = None
            /\ UNCHANGED <<curBlock, blocksSent, deltas, stopReason, result>>
       ELSE /\ emitted' = IF Streaming
                            THEN Append(emitted, DoneEvent(totalInputTokens, totalOutputTokens))
                            ELSE emitted
            /\ result' = IF mode = "execute"
                           THEN <<ExecuteResult(finalContent, totalInputTokens,
                                                totalOutputTokens)>>
                           ELSE result
            /\ pc' = "finished"
            /\ UNCHANGED <<iteration, requests, streamOpen, phase, respBlocks, blocksSent, deltas,
                           currentToolCall, curBlock, stopReason>>
  /\ UNCHANGED <<mode, maxIterations, messages, aborted, abortedMidStream,
                 pendingToolCalls, toolResults, invoked, inFlight, abortedInFlight, nextToolId, regVars, optVars,
                 sseVars, bridgeVars, convVars>>
  /\ UNCHANGED <<totalInputTokens, totalOutputTokens, usageLog, finalContent, envVars>>

\* one turn of for await (const event of stream)
StreamEvent(ev) ==
  /\ pc = "streaming"
  /\ ev \in NextStreamEvents
  /\ IF mode = "executeStream" /\ aborted
       THEN /\ emitted' = Append(emitted, CancelledEvent)
            /\ pc' = "cancelAck"
            /\ UNCHANGED <<phase, respBlocks, curBlock, blocksSent, deltas, stopReason,
                           currentToolCall, nextToolId, backendDeltas>>
       ELSE /\ BackendAdvance(ev)
            /\ backendDeltas' =
                 IF ev.type = "content_block_delta"
                    /\ ev.delta \in {"text_delta", "thinking_delta"}
                   THEN Append(backendDeltas, [delta |-> ev.delta, text |-> ev.text])
                   ELSE backendDeltas
            /\ LET r == IF mode = "executeStream"
                          THEN SwitchExecuteStream(ev, currentToolCall)
                          ELSE SwitchWithHistory(ev, currentToolCall)
               IN /\ emitted' = emitted \o r.out
                  /\ currentToolCall' = r.cur
            /\ pc' = pc
  /\ UNCHANGED <<mode, maxIterations, iteration, requests, messages, aborted,
                 abortedMidStream, streamOpen, pendingToolCalls, toolResults,
                 invoked, inFlight, abortedInFlight, regVars, optVars,
                 sseVars, bridgeVars, convVars>>
  /\ UNCHANGED <<usageVars, backendThinks, script, firstRun>>

\* if (pendingToolCalls.length === 0 || stop_reason === "end_turn") break
CompletesIgnoringStop(pending, stop) == pending = <<>>
Completes(pending, stop) == pending = <<>> \/ stop = "end_turn"

\* the code after the response is complete: assistant turn, exit or dispatch
AfterResponse(blocks, stop) ==
  LET i == AddTokens(totalInputTokens, InputTokensOf(messages))
      o == AddTokens(totalOutputTokens, OutputTokensOf(blocks))
      content == IF mode = "execute" THEN finalContent \o TextOf(blocks) ELSE finalContent
  IN
  /\ totalInputTokens' = i
  /\ totalOutputTokens' = o
  /\ usageLog' = Append(usageLog, [input_tokens |-> InputTokensOf(messages),
                                   output_tokens |-> OutputTokensOf(blocks)])
  /\ finalContent' = content
  /\ messages' = Append(messages, [role |-> "assistant", content |-> blocks])
  /\ IF Completes(PendingOf(blocks), stop)
       THEN /\ emitted' = IF Streaming THEN Append(emitted, DoneEvent(i, o)) ELSE emitted
            /\ result' = IF mode = "execute" THEN <<ExecuteResult(content, i, o)>>
                                             ELSE result
            /\ pc' = "finished"
            /\ UNCHANGED <<pendingToolCalls, toolResults>>
       ELSE /\ pc' = "dispatch"
            /\ pendingToolCalls' = PendingOf(blocks)
            /\ toolResults' = <<>>
            /\ UNCHANGED <<emitted, result>>

\* the stream is exhausted: stream.finalMessage()
StreamEnd ==
  /\ pc = "streaming"
  /\ phase = "ended"
  /\ AfterResponse(respBlocks, stopReason)
  /\ streamOpen' = FALSE
  /\ UNCHANGED <<mode, maxIterations, iteration, requests, aborted, abortedMidStream,
                 phase, respBlocks, curBlock, blocksSent, deltas, stopReason, currentToolCall,
                 invoked, inFlight, abortedInFlight, nextToolId, regVars, optVars,
                 sseVars, bridgeVars, convVars>>
  /\ UNCHANGED envVars

\* execute: await this.client.messages.create(...) resolves
CreateResponse(shape, stop) ==
  /\ pc = "creating"
  /\ blocksSent + Len(shape) <= MaxBlocks
  /\ deltas + TextLen(shape) <= MaxDeltas
  /\ blocksSent' = blocksSent + Len(shape)
  /\ deltas' = deltas + TextLen(shape)
  /\ LET blocks == AssignIds(shape, nextToolId)
     IN /\ respBlocks' = blocks
        /\ nextToolId' = nextToolId + Len(PendingOf(blocks))
        /\ AfterResponse(blocks, stop)
        /\ script' = Append(script, [blocks |-> blocks, stop |-> stop])
  /\ stopReason' = stop
  /\ UNCHANGED <<mode, maxIterations, iteration, requests, aborted, abortedMidStream,
                 streamOpen, phase, curBlock, currentToolCall,
                 invoked, inFlight, abortedInFlight, regVars, optVars,
                 sseVars, bridgeVars, convVars>>
  /\ UNCHANGED <<backendThinks, backendDeltas, firstRun>>

\* the tool-result block pushed to toolResults
ToolResultBlockNoError(call, res) ==
  [tool_use_id |-> call.id, content |-> res.output, is_error |-> FALSE]

ToolResultBlock(call, res) ==
  [tool_use_id |-> call.id,
   content |-> IF res.success THEN res.output ELSE "Error: " \o res.error,
   is_error |-> ~res.success]

\* for (const toolCall of pendingToolCalls): the call the loop takes next
NextCallLast(pending) == pending[Len(pending)]
NextCall(pending) == Head(pending)

\* the calls still to take after call
RemainingNone(pending, call) == <<>>
Remaining(pending, call) == SelectSeq(pending, LAMBDA c : c # call)

\* await this.invokeTool(toolCall.name, toolCall.input): the handler starts
InvokeStart ==
  /\ pc = "dispatch"
  /\ inFlight = <<>>
  /\ pendingToolCalls # <<>>
  /\ LET call == NextCall(pendingToolCalls)
     IN /\ inFlight' = <<call>>
        /\ invoked' = Append(invoked, call.id)
        /\ pendingToolCalls' = Remaining(pendingToolCalls, call)
  /\ UNCHANGED <<mode, pc, maxIterations, iteration, requests, messages, emitted,
                 aborted, abortedMidStream, abortedInFlight,
                 streamOpen, phase, respBlocks, curBlock, blocksSent, deltas, stopReason,
                 currentToolCall, toolResults, nextToolId, regVars, optVars,
                 sseVars, bridgeVars, convVars>>
  /\ UNCHANGED <<usageVars, envVars>>

\* the tool_result event of a call
ToolResultEvent(call, res) ==
  [type |-> "tool_result", id |-> call.id, success |-> res.success, output |-> res.output]

\* invokeTool resolves: the rest of the turn of the for loop; after the last
\* call the tool results are pushed as a user message
DispatchTool ==
  /\ pc = "dispatch"
  /\ inFlight # <<>>
  /\ inFlight' = <<>>
  /\ LET call == inFlight[1]
         r == invokeTool(tools, call.name)
     IN IF r.kind = "throw"
          THEN /\ pc' = "threw"
               /\ UNCHANGED <<emitted, toolResults, messages>>
          ELSE /\ emitted' = IF Streaming
                               THEN Append(emitted, ToolResultEvent(call, r.value))
                               ELSE emitted
               /\ IF pendingToolCalls = <<>>
                    THEN /\ messages' = Append(messages,
                              [role |-> "user",
                               content |-> Append(toolResults, ToolResultBlock(call, r.value))])
                         /\ toolResults' = <<>>
                         /\ pc' = "loopHead"
                    ELSE /\ toolResults' = Append(toolResults, ToolResultBlock(call, r.value))
                         /\ pc' = pc
                         /\ UNCHANGED messages
  /\ UNCHANGED <<mode, maxIterations, iteration, requests, aborted, abortedMidStream,
                 abortedInFlight, pendingToolCalls, invoked,
                 streamOpen, phase, respBlocks, curBlock, blocksSent, deltas, stopReason,
                 currentToolCall, nextToolId, regVars, optVars,
                 sseVars, bridgeVars, convVars>>
  /\ UNCHANGED <<usageVars, envVars>>

\* the generator is resumed after the cancelled event: return, which leaves
\* the for await and so calls the stream iterator's return()
ReturnAfterCancel ==
  /\ pc = "cancelAck"
  /\ pc' = "finished"
  /\ streamOpen' = FALSE
  /\ UNCHANGED <<mode, maxIterations, iteration, requests, messages, emitted, aborted,
                 abortedMidStream, phase, respBlocks, curBlock, blocksSent, deltas, stopReason,
                 currentToolCall, pendingToolCalls, toolResults, invoked, inFlight, abortedInFlight, nextToolId, regVars, optVars,
                 sseVars, bridgeVars, convVars>>
  /\ UNCHANGED <<usageVars, envVars>>

\* the model request fails (connection error, error status): the stream
\* iterator or messages.create rejects; nothing in the loop catches it
BackendFail ==
  /\ \/ pc = "streaming" /\ phase # "ended"
     \/ pc = "creating"
  /\ pc' = "threw"
  /\ streamOpen' = FALSE
  /\ UNCHANGED <<mode, maxIterations, iteration, requests, messages, emitted, aborted,
                 abortedMidStream, phase, respBlocks, curBlock, blocksSent, deltas, stopReason,
                 currentToolCall, pendingToolCalls, toolResults, invoked, inFlight, abortedInFlight, nextToolId, regVars, optVars,
                 sseVars, bridgeVars, convVars>>
  /\ UNCHANGED <<usageVars, envVars>>

\* the caller aborts options.abortSignal
Abort ==
  /\ ~aborted
  /\ pc \notin {"finished", "threw", "cancelAck"}
  /\ aborted' = TRUE
  /\ abortedMidStream' = (mode = "executeStream" /\ pc = "streaming" /\ phase # "ended")
  /\ abortedInFlight' = { inFlight[i].id : i \in 1..Len(inFlight) }
  /\ UNCHANGED <<mode, pc, maxIterations, iteration, requests, messages, emitted,
                 streamOpen, phase, respBlocks, curBlock, blocksSent, deltas, stopReason,
                 currentToolCall, pendingToolCalls, toolResults, invoked, inFlight, nextToolId, regVars, optVars,
                 sseVars, bridgeVars, convVars>>
  /\ UNCHANGED <<usageVars, envVars>>

\* the same request is given to executeStream once execute has returned:
\* the locals of the new call are fresh, the options and the tools are the same
StartStream ==
  /\ mode = "execute"
  /\ firstRun = <<>>
  /\ pc \in {"finished", "threw"}
  /\ firstRun' = <<[requests |-> requests, messages |-> messages, invoked |-> invoked,
                    output |-> finalContent]>>
  /\ mode' = "executeStream"
  /\ pc' = "loopHead"
  /\ iteration' = 0
  /\ requests' = 0
  /\ messages' = <<[role |-> "user", content |-> "message"]>>
  /\ emitted' = <<>>
  /\ streamOpen' = FALSE
  /\ phase' = "begin"
  /\ respBlocks' = <<>>
  /\ curBlock' = TextBlock("")
  /\ blocksSent' = 0
  /\ deltas' = 0
  /\ stopReason' = ""
  /\ currentToolCall' = None
  /\ pendingToolCalls' = <<>>
  /\ toolResults' = <<>>
  /\ invoked' = <<>>
  /\ inFlight' = <<>>
  /\ nextToolId' = 1
  /\ totalInputTokens' = 0
  /\ totalOutputTokens' = 0
  /\ usageLog' = <<>>
  /\ finalContent' = ""
  /\ result' = <<>>
  /\ backendDeltas' = <<>>
  /\ UNCHANGED <<maxIterations, aborted, abortedMidStream, abortedInFlight,
                 backendThinks, script, regVars, optVars, sseVars, bridgeVars, convVars>>

(***************************************************************************)
(* Conversations: createConversation, deleteConversation, sendMessage,     *)
(* sendMessageStream                                                       *)
(*   a call: [conv, kind, pc, events], pc: "pushed" (the user message is   *)
(*   in the conversation) -> "requesting" -> "returned" | "threw" |        *)
(*   "abandoned" (the consumer left the stream)                            *)
(***************************************************************************)
\* the ids crypto.randomUUID() may give, and the ids callers may pass
ConvIds == {"c1", "c2"}

CallKinds == {"sendMessage", "sendMessageStream"}

NotFoundEvent ==
  [type |-> "error", code |-> "conversation_not_found", recoverable |-> FALSE]

\* this.conversations.get(id) is defined
FoundAlways(table, id) == TRUE
Found(table, id) == id \in table

\* createConversation(): a fresh id, an empty message list
createConversation(id) ==
  /\ id \in ConvIds \ convCreated
  /\ convCreated' = convCreated \cup {id}
  /\ convTable' = convTable \cup {id}
  /\ UNCHANGED <<convMessages, convCalls, convRequests>>
  /\ UNCHANGED <<sseVars, bridgeVars, regVars, loopVars>>

\* deleteConversation(id)
deleteConversation(id) ==
  /\ id \in convTable
  /\ convTable' = convTable \ {id}
  /\ UNCHANGED <<convCreated, convMessages, convCalls, convRequests>>
  /\ UNCHANGED <<sseVars, bridgeVars, regVars, loopVars>>

\* sendMessage(id, content) / sendMessageStream(id, content) up to its first
\* await: the lookup, and the push of the user message
Send(kind, id) ==
  /\ Len(convCalls) < MaxCalls
  /\ IF Found(convTable, id)
       THEN /\ convMessages' = [convMessages EXCEPT
                                  ![id] = Append(@, [role |-> "user",
                                                     content |-> Len(convCalls) + 1])]
            /\ convCalls' = Append(convCalls, [conv |-> id, kind |-> kind, pc |-> "pushed",
                                       events |-> <<>>])
       ELSE /\ convCalls' = Append(convCalls,
                 [conv |-> id, kind |-> kind,
                  pc |-> IF kind = "sendMessage" THEN "threw" ELSE "returned",
                  events |-> IF kind = "sendMessage" THEN <<>> ELSE <<NotFoundEvent>>])
            /\ UNCHANGED convMessages
  /\ UNCHANGED <<convTable, convCreated, convRequests>>
  /\ UNCHANGED <<sseVars, bridgeVars, regVars, loopVars>>

\* executeWithHistory / executeStreamWithHistory issues its model request
ConvRequest(c) ==
  /\ c \in 1..Len(convCalls)
  /\ convCalls[c].pc = "pushed"
  /\ convCalls' = [convCalls EXCEPT ![c].pc = "requesting"]
  /\ convRequests' = convRequests + 1
  /\ UNCHANGED <<convTable, convCreated, convMessages>>
  /\ UNCHANGED <<sseVars, bridgeVars, regVars, loopVars>>

\* the execution ends: the assistant response is pushed
ConvReply(c) ==
  /\ c \in 1..Len(convCalls)
  /\ convCalls[c].pc = "requesting"
  /\ convMessages' = [convMessages EXCEPT
                        ![convCalls[c].conv] = Append(@, [role |-> "assistant", content |-> c])]
  /\ convCalls' = [convCalls EXCEPT ![c].pc = "returned",
                            ![c].events = IF convCalls[c].kind = "sendMessageStream"
                                            THEN Append(@, [type |-> "done"]) ELSE @]
  /\ UNCHANGED <<convTable, convCreated, convRequests>>
  /\ UNCHANGED <<sseVars, bridgeVars, regVars, loopVars>>

\* the model request fails: the rejection leaves sendMessage, or the
\* generator, before the push of the assistant response
ConvFail(c) ==
  /\ c \in 1..Len(convCalls)
  /\ convCalls[c].pc = "requesting"
  /\ convCalls' = [convCalls EXCEPT ![c].pc = "threw"]
  /\ UNCHANGED <<convTable, convCreated, convMessages, convRequests>>
  /\ UNCHANGED <<sseVars, bridgeVars, regVars, loopVars>>

\* the consumer of sendMessageStream leaves the for await (return())
ConvAbandon(c) ==
  /\ c \in 1..Len(convCalls)
  /\ convCalls[c].kind = "sendMessageStream"
  /\ convCalls[c].pc = "requesting"
  /\ convCalls' = [convCalls EXCEPT ![c].pc = "abandoned"]
  /\ UNCHANGED <<convTable, convCreated, convMessages, convRequests>>
  /\ UNCHANGED <<sseVars, bridgeVars, regVars, loopVars>>

(***************************************************************************)
(* Bodies: concatenations of at most MaxPieces pieces                      *)
(***************************************************************************)
Pieces ==
  { <<NL>>, <<" ">>, <<"x">>,
    <<"d", "a", "t", "a", ":", "a">>,
    <<"i", "d", ":", "1">>,
    <<"e", "v", "e", "n", "t", ":", "e">> }

RECURSIVE Concat(_)
Concat(ps) == IF ps = <<>> THEN <<>> ELSE Head(ps) \o Concat(Tail(ps))

Bodies == { Concat(ps) : ps \in UNION { [1..n -> Pieces] : n \in 0..MaxPieces } }

\* whole frames as a server writes them: with an id, without one, with an
\* empty id, without a data line, and one that lacks its terminating blank line
Frame1 == <<"i", "d", ":", "1", NL, "d", "a", "t", "a", ":", "a", NL, NL>>
Frame2 == <<"i", "d", ":", "2", NL, "d", "a", "t", "a", ":", "b", NL, NL>>
Frame2Open == <<"i", "d", ":", "2", NL, "d", "a", "t", "a", ":", "b">>
FrameNoId == <<"d", "a", "t", "a", ":", "c", NL, NL>>
FrameEmptyId == <<"i", "d", ":", NL, "d", "a", "t", "a", ":", "d", NL, NL>>
FrameNoData == <<"i", "d", ":", "3", NL, ":", "x", NL, NL>>

FramePieces == { Frame1, Frame2, Frame2Open, FrameNoId, FrameEmptyId, FrameNoData }

FrameBodies ==
  { Concat(ps) : ps \in UNION { [1..n -> FramePieces] : n \in 0..MaxFrames } }

\* options.lastEventId: undefined on a first connect, or the id to resume from
ResumeCursors == { <<>>, << <<"7">> >> }

(***************************************************************************)
(* Initial states and specifications                                       *)
(***************************************************************************)
BridgeIdle ==
  /\ events = <<>>
  /\ done = FALSE
  /\ error = FALSE
  /\ resolve = "undefined"
  /\ gen = "start"
  /\ session = "none"
  /\ closeCalls = 0
  /\ returnQueued = FALSE
  /\ pushed = <<>>
  /\ received = <<>>
  /\ yielded = <<>>

SSEIdle ==
  /\ response = Rejected
  /\ fetches = 0
  /\ openCalls = 0
  /\ sseErrors = <<>>
  /\ onCloseCalls = 0
  /\ resumeCursor = <<>>
  /\ sentHeader = <<>>
  /\ ctrlAborted = FALSE
  /\ closesSeen = 0
  /\ deliveredAtClose = <<>>
  /\ tailSplit = FALSE
  /\ readerState = "idle"
  /\ body = <<>>
  /\ pos = 0
  /\ buffer = <<>>
  /\ delivered = <<>>
  /\ lastEventId = <<>>
  /\ sepSplit = FALSE

ConvIdle ==
  /\ convTable = {}
  /\ convCreated = {}
  /\ convMessages = [id \in ConvIds |-> <<>>]
  /\ convCalls = <<>>
  /\ convRequests = 0

RegistryIdle ==
  /\ tools = << >>
  /\ lastInvoke = <<>>
  /\ regLog = <<>>

LoopIdle ==
  /\ mode = "executeStream"
  /\ pc = "loopHead"
  /\ maxIterations = 0
  /\ iteration = 0
  /\ requests = 0
  /\ messages = <<>>
  /\ emitted = <<>>
  /\ aborted = FALSE
  /\ abortedMidStream = FALSE
  /\ streamOpen = FALSE
  /\ phase = "begin"
  /\ respBlocks = <<>>
  /\ curBlock = TextBlock("")
  /\ blocksSent = 0
  /\ deltas = 0
  /\ stopReason = ""
  /\ currentToolCall = None
  /\ pendingToolCalls = <<>>
  /\ toolResults = <<>>
  /\ invoked = <<>>
  /\ inFlight = <<>>
  /\ abortedInFlight = {}
  /\ nextToolId = 1
  /\ totalInputTokens = 0
  /\ totalOutputTokens = 0
  /\ usageLog = <<>>
  /\ finalContent = ""
  /\ result = <<>>
  /\ backendThinks = FALSE
  /\ backendDeltas = <<>>
  /\ script = <<>>
  /\ firstRun = <<>>
  /\ optionTools = <<>>
  /\ advertised = {}

\* ---- the SSE read loop on every body ----
InitSSE ==
  /\ response \in Responses
  /\ body \in (IF response.hasBody THEN Bodies ELSE { <<>> })
  /\ fetches = 0
  /\ openCalls = 0
  /\ sseErrors = <<>>
  /\ onCloseCalls = 0
  /\ resumeCursor = <<>>
  /\ sentHeader = <<>>
  /\ ctrlAborted = FALSE
  /\ closesSeen = 0
  /\ deliveredAtClose = <<>>
  /\ tailSplit = FALSE
  /\ pos = 0
  /\ buffer = <<>>
  /\ delivered = <<>>
  /\ lastEventId = <<>>
  /\ readerState = "idle"
  /\ sepSplit = FALSE
  /\ BridgeIdle /\ ConvIdle /\ RegistryIdle /\ LoopIdle

NextSSE ==
  \/ Connect
  \/ FetchSettled
  \/ \E k \in 1..Len(body) : ReadChunk(k)
  \/ ReadDone

SpecSSE == InitSSE /\ [][NextSSE]_vars

\* connection lifecycle: resume cursor, frames with ids, close() and failures
InitConn ==
  /\ response \in Responses
  /\ body \in (IF response.hasBody THEN FrameBodies ELSE { <<>> })
  /\ resumeCursor \in ResumeCursors
  /\ fetches = 0
  /\ openCalls = 0
  /\ sseErrors = <<>>
  /\ onCloseCalls = 0
  /\ sentHeader = <<>>
  /\ ctrlAborted = FALSE
  /\ closesSeen = 0
  /\ deliveredAtClose = <<>>
  /\ tailSplit = FALSE
  /\ pos = 0
  /\ buffer = <<>>
  /\ delivered = <<>>
  /\ lastEventId = <<>>
  /\ readerState = "idle"
  /\ sepSplit = FALSE
  /\ BridgeIdle /\ ConvIdle /\ RegistryIdle /\ LoopIdle

NextConn ==
  \/ Connect
  \/ FetchSettled
  \/ \E k \in 1..Len(body) : ReadChunk(k)
  \/ ReadDone
  \/ Close
  \/ AbortSettles
  \/ ReadFail

SpecConn == InitConn /\ [][NextConn]_vars

\* the same, with onEvent callbacks that may call close()
NextConnCallbacks ==
  \/ NextConn
  \/ \E k \in 1..Len(body), j \in 1..MaxFrames : ReadChunkClosing(k, j)

SpecConnCallbacks == InitConn /\ [][NextConnCallbacks]_vars

\* ---- stream(): producer callbacks against the consumer ----
InitBridge == BridgeIdle /\ ConvIdle /\ SSEIdle /\ RegistryIdle /\ LoopIdle

NextBridge ==
  \/ \E p \in Payloads : OnEvent(p)
  \/ OnError
  \/ OnClose
  \/ Start
  \/ Pull
  \/ Resume
  \/ Return
  \/ QueueReturn

SpecBridge == InitBridge /\ [][NextBridge]_vars

\* the event loop runs every continuation that is ready
SpecBridgeFair == SpecBridge /\ WF_vars(Resume)

\* ---- the tool registry ----
InitRegistry == RegistryIdle /\ SSEIdle /\ BridgeIdle /\ ConvIdle /\ LoopIdle

NextRegistry ==
  \/ \E n \in ToolNames, h \in Handlers : registerTool(n, h)
  \/ \E n \in ToolNames : unregisterTool(n)
  \/ \E n \in ToolNames : InvokeDirect(n)

SpecRegistry == InitRegistry /\ [][NextRegistry]_vars

\* ---- one execution of the agent loop ----
Registries == { << >> } \cup { [n \in {"foo"} |-> h] : h \in Handlers }

InitLoop ==
  /\ mode \in {"execute", "executeStream", "sendMessageStream"}
  /\ maxIterations \in 0..MaxIter
  /\ tools \in Registries
  /\ optionTools = <<>>
  /\ advertised = DOMAIN tools
  /\ lastInvoke = <<>>
  /\ regLog = <<>>
  /\ pc = "loopHead"
  /\ iteration = 0
  /\ requests = 0
  /\ messages = <<[role |-> "user", content |-> "message"]>>
  /\ emitted = <<>>
  /\ aborted = FALSE
  /\ abortedMidStream = FALSE
  /\ streamOpen = FALSE
  /\ phase = "begin"
  /\ respBlocks = <<>>
  /\ curBlock = TextBlock("")
  /\ blocksSent = 0
  /\ deltas = 0
  /\ stopReason = ""
  /\ currentToolCall = None
  /\ pendingToolCalls = <<>>
  /\ toolResults = <<>>
  /\ invoked = <<>>
  /\ inFlight = <<>>
  /\ abortedInFlight = {}
  /\ nextToolId = 1
  /\ totalInputTokens = 0
  /\ totalOutputTokens = 0
  /\ usageLog = <<>>
  /\ finalContent = ""
  /\ result = <<>>
  /\ backendThinks = FALSE
  /\ backendDeltas = <<>>
  /\ script = <<>>
  /\ firstRun = <<>>
  /\ SSEIdle /\ BridgeIdle /\ ConvIdle

NextLoop ==
  \/ LoopHead
  \/ \E ev \in NextStreamEvents : StreamEvent(ev)
  \/ StreamEnd
  \/ \E bs \in ResponseShapes, r \in StopReasons : CreateResponse(bs, r)
  \/ InvokeStart
  \/ DispatchTool
  \/ ReturnAfterCancel
  \/ BackendFail
  \/ Abort

SpecLoop == InitLoop /\ [][NextLoop]_vars

\* the locals of a loop that has just been entered
LoopLocalsAtStart ==
  /\ lastInvoke = <<>>
  /\ regLog = <<>>
  /\ pc = "loopHead"
  /\ iteration = 0
  /\ requests = 0
  /\ messages = <<[role |-> "user", content |-> "message"]>>
  /\ emitted = <<>>
  /\ abortedMidStream = FALSE
  /\ streamOpen = FALSE
  /\ phase = "begin"
  /\ respBlocks = <<>>
  /\ curBlock = TextBlock("")
  /\ blocksSent = 0
  /\ deltas = 0
  /\ stopReason = ""
  /\ currentToolCall = None
  /\ pendingToolCalls = <<>>
  /\ toolResults = <<>>
  /\ invoked = <<>>
  /\ inFlight = <<>>
  /\ abortedInFlight = {}
  /\ nextToolId = 1
  /\ totalInputTokens = 0
  /\ totalOutputTokens = 0
  /\ usageLog = <<>>
  /\ finalContent = ""
  /\ result = <<>>
  /\ backendDeltas = <<>>
  /\ script = <<>>
  /\ firstRun = <<>>

\* ---- a streamed execution against a backend that also thinks ----
InitRelay ==
  /\ mode \in {"executeStream", "sendMessageStream"}
  /\ maxIterations \in 1..MaxIter
  /\ tools \in Registries
  /\ optionTools = <<>>
  /\ advertised = DOMAIN tools
  /\ aborted = FALSE
  /\ backendThinks = TRUE
  /\ LoopLocalsAtStart
  /\ SSEIdle /\ BridgeIdle /\ ConvIdle

NextRelay ==
  \/ LoopHead
  \/ \E ev \in NextStreamEvents : StreamEvent(ev)
  \/ StreamEnd
  \/ InvokeStart
  \/ DispatchTool

SpecRelay == InitRelay /\ [][NextRelay]_vars

\* ---- execute, then executeStream on the same request, options, backend
\* ---- behaviour and tools
InitEquiv ==
  /\ mode = "execute"
  /\ maxIterations \in 0..MaxIter
  /\ tools \in Registries
  /\ optionTools = <<>>
  /\ advertised = DOMAIN tools
  /\ aborted \in BOOLEAN
  /\ backendThinks = FALSE
  /\ LoopLocalsAtStart
  /\ SSEIdle /\ BridgeIdle /\ ConvIdle

NextEquiv ==
  \/ LoopHead
  \/ \E bs \in ResponseShapes, r \in StopReasons : CreateResponse(bs, r)
  \/ InvokeStart
  \/ DispatchTool
  \/ StartStream
  \/ \E ev \in NextStreamEvents : StreamEvent(ev)
  \/ StreamEnd
  \/ ReturnAfterCancel

SpecEquiv == InitEquiv /\ [][NextEquiv]_vars

\* ---- conversations: calls that overlap, fail or name unknown ids ----
InitConv == ConvIdle /\ SSEIdle /\ BridgeIdle /\ RegistryIdle /\ LoopIdle

NextConv ==
  \/ \E id \in ConvIds : createConversation(id)
  \/ \E id \in ConvIds : deleteConversation(id)
  \/ \E k \in CallKinds, id \in ConvIds : Send(k, id)
  \/ \E c \in 1..MaxCalls : ConvRequest(c)
  \/ \E c \in 1..MaxCalls : ConvReply(c)
  \/ \E c \in 1..MaxCalls : ConvFail(c)
  \/ \E c \in 1..MaxCalls : ConvAbandon(c)

SpecConv == InitConv /\ [][NextConv]_vars

\* ---- an execution with tools of its own, on an adapter whose registry
\* ---- changes while the execution runs; the model calls an advertised tool
InitAdvertised ==
  /\ mode \in {"execute", "executeStream", "sendMessageStream"}
  /\ maxIterations \in 1..MaxIter
  /\ tools \in Registries
  /\ optionTools \in Registries
  /\ advertised = (DOMAIN tools) \cup (DOMAIN optionTools)
  /\ ModelToolNames \subseteq advertised
  /\ aborted = FALSE
  /\ backendThinks = FALSE
  /\ LoopLocalsAtStart
  /\ SSEIdle /\ BridgeIdle /\ ConvIdle

NextAdvertised ==
  \/ LoopHead
  \/ \E ev \in NextStreamEvents : StreamEvent(ev)
  \/ StreamEnd
  \/ \E bs \in ResponseShapes, r \in StopReasons : CreateResponse(bs, r)
  \/ InvokeStart
  \/ DispatchTool
  \/ \E n \in DOMAIN tools : unregisterTool(n)

SpecAdvertised == InitAdvertised /\ [][NextAdvertised]_vars

(***************************************************************************)
(* Claims                                                                  *)
(***************************************************************************)
(***************************************************************************)
(* C1: however the body is split into chunks, the frames delivered to      *)
(* onEvent when the body ends are the frames delivered when the whole body *)
(* arrives as one single chunk.                                            *)
(***************************************************************************)
OneChunkFrames(s) ==
  LET parts == SplitEvents(s) IN
  FramesOf(SubSeq(parts, 1, Len(parts) - 1)) \o FramesOf(<<parts[Len(parts)]>>)

ChunkIndependence ==
  readerState = "closed" => delivered = OneChunkFrames(body)

ChunkIndependenceWitness ==
  /\ readerState = "closed"
  /\ sepSplit
  /\ Len(delivered) >= 2

(***************************************************************************)
(* C2: in every execution of the streaming loop exactly one terminal event *)
(* (done or error) is yielded, it is the last event, and an execution that *)
(* has ended - also by a backend failure - has yielded it.                 *)
(***************************************************************************)
IsTerminal(e) == e.type \in {"done", "error"}

TerminalCount(es) == Cardinality({ i \in 1..Len(es) : IsTerminal(es[i]) })

ExactlyOneTerminal ==
  Streaming =>
    /\ TerminalCount(emitted) <= 1
    /\ \A i \in 1..Len(emitted) : IsTerminal(emitted[i]) => i = Len(emitted)
    /\ pc \in {"finished", "threw"} => TerminalCount(emitted) = 1

(***************************************************************************)
(* C3: every tool_call_end and tool_call_delta is preceded by a            *)
(* tool_call_start with the same id, and a tool_call_start never opens an  *)
(* id that is still open.                                                  *)
(***************************************************************************)
IsToolEvent(e, t, id) == e.type = t /\ e.id = id

ToolEventsPaired ==
  Streaming =>
    /\ \A i \in 1..Len(emitted) :
         emitted[i].type \in {"tool_call_end", "tool_call_delta"} =>
           \E j \in 1..(i - 1) : IsToolEvent(emitted[j], "tool_call_start", emitted[i].id)
    /\ \A i \in 1..Len(emitted) : \A j \in (i + 1)..Len(emitted) :
         (emitted[i].type = "tool_call_start"
            /\ IsToolEvent(emitted[j], "tool_call_start", emitted[i].id)) =>
           \E k \in (i + 1)..(j - 1) : IsToolEvent(emitted[k], "tool_call_end", emitted[i].id)

\* a tool call with a delta has ended, and a later text block has ended too
ToolEventsWitness ==
  /\ mode = "executeStream"
  /\ \E i \in 1..Len(emitted) : emitted[i].type = "tool_call_delta"
  /\ \E i \in 1..Len(emitted) : emitted[i].type = "tool_call_end"
  /\ Len(respBlocks) = 2 /\ respBlocks[1].type = "tool_use" /\ respBlocks[2].type = "text"

(***************************************************************************)
(* C4: the loop never issues more than maxIterations model requests, and   *)
(* an execution in which every request was answered by a response that     *)
(* asked for tools ends after exactly maxIterations requests, normally,    *)
(* with done as its last event.                                            *)
(***************************************************************************)
EveryResponseAskedForTools == Len(messages) = 1 + 2 * requests

TruncationIsDone ==
  /\ requests <= maxIterations
  /\ (pc \in {"finished", "threw"} /\ EveryResponseAskedForTools) =>
       /\ pc = "finished"
       /\ requests = maxIterations
       /\ Streaming => emitted[Len(emitted)].type = "done"

TruncationWitness ==
  /\ mode = "executeStream"
  /\ pc = "finished"
  /\ EveryResponseAskedForTools
  /\ requests >= 2
  /\ emitted[Len(emitted)].type = "done"

(***************************************************************************)
(* C5: an execution of executeStream that was cancelled while the model    *)
(* stream still had events to deliver ends with the cancelled event as its *)
(* last event and with the backend stream closed.                          *)
(***************************************************************************)
CancelMidStreamAcknowledged ==
  (abortedMidStream /\ pc \in {"finished", "threw"}) =>
    /\ emitted # <<>>
    /\ emitted[Len(emitted)] = CancelledEvent
    /\ ~streamOpen

(***************************************************************************)
(* C6: the values yielded so far followed by the values still queued are   *)
(* exactly the values onEvent parsed, in order: nothing is dropped,        *)
(* duplicated or reordered, however far the producer runs ahead.           *)
(***************************************************************************)
BridgeOrderExact == yielded \o events = pushed

\* the producer has run ahead of the consumer
BridgeAheadWitness == Len(events) >= 2 /\ Len(yielded) >= 1

(***************************************************************************)
(* C7: when stream() surfaces its terminal state (normal return or the     *)
(* thrown error), every value that was buffered has been yielded.          *)
(***************************************************************************)
DrainBeforeTerminal ==
  gen \in {"returned", "threw"} => events = <<>> /\ yielded = pushed

DrainWitness ==
  /\ gen = "threw"
  /\ Len(yielded) >= 2

(***************************************************************************)
(* C8: once the generator has finished, in whatever way, and a connection  *)
(* was made, connection.close() has been called.                           *)
(***************************************************************************)
CloseOnEveryExit ==
  gen \in {"returned", "threw", "cancelled"} /\ session # "none"
    => closeCalls >= 1

CloseEarlyExitWitness ==
  /\ gen = "cancelled"
  /\ session = "open"
  /\ closeCalls = 1
  /\ events # <<>>

(***************************************************************************)
(* C9: a consumer blocked on the promise always has an empty queue and an  *)
(* open session while the promise is unresolved, and once an event, the    *)
(* end or an error has arrived it is resumed.                              *)
(***************************************************************************)
NoLostWakeup ==
  /\ [](gen = "waiting" /\ resolve = "pending"
          => events = <<>> /\ ~done /\ ~error)
  /\ ((gen = "waiting" /\ (events # <<>> \/ done \/ error)) ~> (gen # "waiting"))

WakeupWitness ==
  /\ gen = "waiting"
  /\ resolve = "called"
  /\ done
  /\ events = <<>>
(***************************************************************************)
(* C10: invokeTool on a name with no registered handler returns (it does   *)
(* not throw) the failure result whose error is "not found".               *)
(***************************************************************************)
UnknownToolNotFound ==
  \A i \in 1..Len(lastInvoke) :
    ~lastInvoke[i].known =>
      /\ lastInvoke[i].result.kind = "return"
      /\ lastInvoke[i].result.value.success = FALSE
      /\ lastInvoke[i].result.value.error = "not found"

\* C10 as amended: the error is "Tool not found: " followed by the name
UnknownToolFailureResult ==
  \A i \in 1..Len(lastInvoke) :
    ~lastInvoke[i].known =>
      /\ lastInvoke[i].result.kind = "return"
      /\ lastInvoke[i].result.value.success = FALSE
      /\ lastInvoke[i].result.value.error = "Tool not found: " \o lastInvoke[i].toolId

UnknownToolWitness ==
  /\ lastInvoke # <<>>
  /\ lastInvoke[1].toolId = "foo"
  /\ ~lastInvoke[1].known
  /\ "bar" \in DOMAIN tools

(***************************************************************************)
(* C11: invokeTool always returns a result record: when the handler throws *)
(* or its promise rejects, the call returns {success: false, error: the    *)
(* message} and nothing propagates to the caller.                          *)
(***************************************************************************)
ThrownMessage(h) == CASE h = "throws" -> "boom" [] h = "rejects" -> "nope" [] OTHER -> ""

HandlerFailureConverted ==
  \A i \in 1..Len(lastInvoke) :
    /\ lastInvoke[i].result.kind = "return"
    /\ lastInvoke[i].result.value.success \in BOOLEAN
    /\ lastInvoke[i].handler \in {"throws", "rejects"} =>
         /\ lastInvoke[i].result.value.success = FALSE
         /\ lastInvoke[i].result.value.error = ThrownMessage(lastInvoke[i].handler)

HandlerRejectionWitness ==
  /\ lastInvoke # <<>>
  /\ lastInvoke[1].handler = "rejects"
  /\ lastInvoke[1].result.value.error = "nope"

(***************************************************************************)
(* C12: after any sequence of registerTool / unregisterTool calls the      *)
(* registry holds, for each name, the handler of the most recent           *)
(* registration of that name not since unregistered, invokeTool dispatches *)
(* to that handler, and unregisterTool returned true exactly when the name *)
(* was registered at the time of the call.                                 *)
(***************************************************************************)
\* the handler the log of calls leaves registered under name, "" for none
RECURSIVE LastRegistration(_, _)
LastRegistration(log, name) ==
  IF log = <<>> THEN ""
  ELSE LET e == log[Len(log)] IN
       IF e.name = name
         THEN (IF e.op = "register" THEN e.handler ELSE "")
         ELSE LastRegistration(SubSeq(log, 1, Len(log) - 1), name)

\* the handler a result comes from
DispatchedTo(res) ==
  CASE res.success -> "ok"
    [] ~res.success /\ res.error = "failed" -> "fails"
    [] ~res.success /\ res.error = "boom" -> "throws"
    [] ~res.success /\ res.error = "nope" -> "rejects"
    [] OTHER -> ""

LastRegistrationWins ==
  /\ DOMAIN tools = { n \in ToolNames : LastRegistration(regLog, n) # "" }
  /\ \A n \in DOMAIN tools : tools[n] = LastRegistration(regLog, n)
  /\ \A i \in 1..Len(regLog) :
       regLog[i].op = "unregister" =>
         regLog[i].ret = (LastRegistration(SubSeq(regLog, 1, i - 1), regLog[i].name) # "")
  /\ \A i \in 1..Len(lastInvoke) :
       lastInvoke[i].result.kind = "return"
       /\ DispatchedTo(lastInvoke[i].result.value)
            = LastRegistration(SubSeq(regLog, 1, lastInvoke[i].at), lastInvoke[i].toolId)

\* a name registered twice with different handlers, then invoked, while the
\* other name was unregistered without having been registered
LastRegistrationWitness ==
  /\ Len(regLog) = 3
  /\ regLog[1].op = "register" /\ regLog[1].name = "foo" /\ regLog[1].handler = "ok"
  /\ regLog[2].op = "unregister" /\ regLog[2].name = "bar" /\ ~regLog[2].ret
  /\ regLog[3].op = "register" /\ regLog[3].name = "foo" /\ regLog[3].handler = "fails"
  /\ lastInvoke # <<>>
  /\ lastInvoke[1].toolId = "foo" /\ lastInvoke[1].at = 3
  /\ lastInvoke[1].result.value.error = "failed"

(***************************************************************************)
(* C13: within one round the pending tool calls are invoked one at a time, *)
(* in the order the model requested them, and the tool results (the        *)
(* tool_result events and the blocks folded into the conversation) come in *)
(* that same order.                                                        *)
(***************************************************************************)
Ids(calls) == [i \in 1..Len(calls) |-> calls[i].id]

ResultIds(blocks) == [i \in 1..Len(blocks) |-> blocks[i].tool_use_id]

ToolResultEventIds(es) == Ids(SelectSeq(es, LAMBDA e : e.type = "tool_result"))

\* the ids of the tool results folded into the conversation, in order
RECURSIVE FoldedIds(_)
FoldedIds(msgs) ==
  IF Len(msgs) <= 1 THEN <<>>
  ELSE FoldedIds(SubSeq(msgs, 1, Len(msgs) - 1))
       \o (IF msgs[Len(msgs)].role = "user" THEN ResultIds(msgs[Len(msgs)].content)
           ELSE <<>>)

ToolCallsSequentialInOrder ==
  /\ Len(inFlight) <= 1
  /\ pc = "dispatch" =>
       ResultIds(toolResults) \o Ids(inFlight) \o Ids(pendingToolCalls)
         = Ids(PendingOf(respBlocks))
  /\ \A i \in 2..Len(messages) :
       messages[i].role = "user" =>
         ResultIds(messages[i].content) = Ids(PendingOf(messages[i - 1].content))
  /\ Streaming => ToolResultEventIds(emitted) = FoldedIds(messages) \o ResultIds(toolResults)
  /\ invoked = FoldedIds(messages) \o ResultIds(toolResults) \o Ids(inFlight)

\* a round of two tool calls has been dispatched and folded
ToolCallsInOrderWitness ==
  /\ mode = "executeStream"
  /\ Len(messages) >= 3
  /\ messages[3].role = "user"
  /\ Len(messages[3].content) = 2
  /\ Len(ToolResultEventIds(emitted)) = 2

(***************************************************************************)
(* C14: the iteration counter starts at 0, is incremented only after a     *)
(* tool-dispatch round (so it never exceeds the number of rounds           *)
(* dispatched), and the loop stops before another request exactly when the *)
(* counter has reached maxIterations.                                      *)
(***************************************************************************)
DispatchRounds == Cardinality({ i \in 2..Len(messages) : messages[i].role = "user" })

IterationCountsDispatchRounds == iteration <= DispatchRounds

\* C14 as amended: the counter is incremented at the top of every iteration,
\* before the model request, so it counts the requests issued; the loop
\* leaves its head without a request exactly when it has reached maxIterations
IterationCountsRequests ==
  /\ [](iteration = requests /\ iteration <= maxIterations)
  /\ [][(pc = "loopHead" /\ pc' # "loopHead") =>
          /\ (requests' = requests) <=> (iteration = maxIterations)
          /\ (requests' # requests) => (requests' = requests + 1 /\ iteration' = iteration + 1)
          /\ (requests' = requests) => pc' = "finished"]_vars
  /\ [][pc # "loopHead" => (iteration' = iteration /\ requests' = requests)]_vars

\* a response without tool calls has ended the execution: the counter is 1
IterationWitness ==
  /\ pc = "finished"
  /\ Len(messages) = 2
  /\ iteration = 1
  /\ maxIterations = 2

(***************************************************************************)
(* C15: when a response has no tool calls, or its stop_reason is end_turn, *)
(* the loop appends the assistant turn, yields done (the streaming loops)  *)
(* and stops: no tool handler is invoked and no further request is issued. *)
(***************************************************************************)
ResponseComplete ==
  /\ \/ pc = "streaming" /\ phase = "ended"
     \/ pc = "creating"
  /\ pc' # pc
  /\ pc' # "threw"

CompletionStops ==
  /\ [][(ResponseComplete /\ (PendingOf(respBlocks') = <<>> \/ stopReason' = "end_turn")) =>
          /\ pc' = "finished"
          /\ messages' = Append(messages, [role |-> "assistant", content |-> respBlocks'])
          /\ Streaming => (/\ Len(emitted') = Len(emitted) + 1
                           /\ SubSeq(emitted', 1, Len(emitted)) = emitted
                           /\ emitted'[Len(emitted')].type = "done")
          /\ invoked' = invoked]_vars
  /\ [][pc = "finished" =>
          UNCHANGED <<pc, requests, invoked, inFlight, messages, emitted>>]_vars

\* a response that asked for a tool but ended with end_turn
CompletionWitness ==
  /\ mode = "executeStream"
  /\ pc = "finished"
  /\ stopReason = "end_turn"
  /\ PendingOf(respBlocks) # <<>>
  /\ invoked = <<>>
  /\ emitted[Len(emitted)].type = "done"

(***************************************************************************)
(* C16: when the abort signal is already set as an iteration of            *)
(* executeStream begins, the loop issues no model request, yields the      *)
(* terminal error event with recoverable false and stops.                  *)
(***************************************************************************)
CancelCheckedBeforeRequest ==
  [][(mode = "executeStream" /\ pc = "loopHead" /\ iteration < maxIterations
        /\ aborted) =>
       /\ requests' = requests
       /\ pc' = "finished"
       /\ emitted' = Append(emitted, CancelledEvent)]_vars

(***************************************************************************)
(* C17: the result of a tool handler that was in flight when cancellation  *)
(* was requested is discarded: it is never folded into the conversation    *)
(* that is sent to the model.                                              *)
(***************************************************************************)
InFlightResultDiscarded ==
  mode = "executeStream" =>
    \A id \in abortedInFlight :
      \A i \in 1..Len(FoldedIds(messages)) : FoldedIds(messages)[i] # id

(***************************************************************************)
(* C18: a tool call that fails (the handler returns a failure, throws or   *)
(* rejects, or the name is unknown) never makes the loop raise: its        *)
(* tool_result event says success false, an error tool-result block is     *)
(* folded into the conversation, and the loop goes on to its next step.    *)
(***************************************************************************)
FailingRegistry == "foo" \notin DOMAIN tools \/ tools["foo"] # "ok"

ExpectedError ==
  IF "foo" \notin DOMAIN tools THEN "Tool not found: foo"
  ELSE IF tools["foo"] = "fails" THEN "failed"
  ELSE ThrownMessage(tools["foo"])

IsErrorBlock(b) == b.is_error /\ b.content = "Error: " \o ExpectedError

ToolFailureFolded ==
  /\ [](FailingRegistry =>
          /\ \A i \in 1..Len(emitted) :
               emitted[i].type = "tool_result" => emitted[i].success = FALSE
          /\ \A i \in 1..Len(toolResults) : IsErrorBlock(toolResults[i])
          /\ \A i \in 2..Len(messages) :
               messages[i].role = "user" =>
                 \A j \in 1..Len(messages[i].content) : IsErrorBlock(messages[i].content[j])
          /\ Streaming =>
               ToolResultEventIds(emitted) = FoldedIds(messages) \o ResultIds(toolResults)
          /\ invoked = FoldedIds(messages) \o ResultIds(toolResults) \o Ids(inFlight))
  /\ [][(pc = "dispatch" /\ inFlight # <<>> /\ inFlight' = <<>>) =>
          /\ pc' = IF pendingToolCalls = <<>> THEN "loopHead" ELSE "dispatch"
          /\ Len(FoldedIds(messages')) + Len(toolResults')
               = Len(FoldedIds(messages)) + Len(toolResults) + 1]_vars
  /\ [][(pc' = "threw" /\ pc # "threw") => pc \in {"streaming", "creating"}]_vars

\* the handler threw, the failure was folded, and the next request is under way
ToolFailureWitness ==
  /\ mode = "executeStream"
  /\ "foo" \in DOMAIN tools
  /\ tools["foo"] = "throws"
  /\ requests = 2
  /\ pc = "streaming"
  /\ Len(messages) = 3
  /\ messages[3].content[1].is_error
  /\ \E i \in 1..Len(emitted) : emitted[i].type = "tool_result" /\ ~emitted[i].success

(***************************************************************************)
(* C19: every tool_result event carries a success boolean together with an *)
(* output when it succeeded, or a populated error field when it failed.    *)
(***************************************************************************)
ToolResultCarriesOutcome ==
  Streaming =>
    \A i \in 1..Len(emitted) :
      emitted[i].type = "tool_result" =>
        /\ emitted[i].success \in BOOLEAN
        /\ emitted[i].success => emitted[i].output # ""
        /\ ~emitted[i].success =>
             ("error" \in DOMAIN emitted[i] /\ emitted[i].error # "")

(***************************************************************************)
(* C20: when the streaming request is answered with a non-success status,  *)
(* the error is given to onError, no frame of the body is delivered to     *)
(* onEvent, onOpen is not called, and no second request is issued.         *)
(***************************************************************************)
NonSuccessStatus ==
  response.kind = "response" /\ response.status \notin 200..299

NonSuccessSurfaced ==
  NonSuccessStatus =>
    /\ fetches <= 1
    /\ delivered = <<>>
    /\ openCalls = 0
    /\ readerState \in {"idle", "requesting", "failed"}
    /\ readerState = "failed" => (fetches = 1 /\ sseErrors = <<"sse_connection_failed">>)
    /\ readerState # "failed" => sseErrors = <<>>

\* a 404 whose body holds frames
NonSuccessWitness ==
  /\ response.kind = "response"
  /\ response.status = 404
  /\ readerState = "failed"
  /\ Len(OneChunkFrames(body)) >= 1

(***************************************************************************)
(* C21: a session cancelled through close() completes silently: onClose is *)
(* called once and onError never, also after the close; any other failure  *)
(* of the request or of the body read is given to onError, without onClose.*)
(***************************************************************************)
SilentCancelLoudFailure ==
  /\ [](/\ readerState = "cancelled" =>
             (closesSeen >= 1 /\ onCloseCalls = 1 /\ sseErrors = <<>>)
        /\ readerState = "failed" => (Len(sseErrors) = 1 /\ onCloseCalls = 0)
        /\ sseErrors # <<>> => readerState = "failed"
        /\ readerState \in {"reading", "closed"} =>
             (response.kind = "response" /\ response.hasBody
              /\ response.status \in 200..299))
  /\ [][ctrlAborted => sseErrors' = sseErrors]_vars
  /\ [][(ctrlAborted /\ readerState \in {"requesting", "reading"}
         /\ readerState' # readerState) => readerState' = "cancelled"]_vars

\* close() arrived between two chunks, after a frame had been delivered
SilentCancelWitness ==
  /\ readerState = "cancelled"
  /\ delivered # <<>>
  /\ pos < Len(body)
  /\ onCloseCalls = 1
  /\ sseErrors = <<>>

(***************************************************************************)
(* C22: close() is idempotent: a call changes nothing but the abort flag   *)
(* of the controller, a call on an aborted controller changes nothing, a   *)
(* call after the end causes no callback, and over the whole life of the   *)
(* connection at most one of onClose and onError is called, once.          *)
(***************************************************************************)
Ended == readerState \in {"closed", "failed", "cancelled"}

CloseIdempotent ==
  /\ [](onCloseCalls + Len(sseErrors) <= 1)
  /\ [][closesSeen' # closesSeen =>
          /\ ctrlAborted'
          /\ UNCHANGED <<response, fetches, openCalls, sseErrors, onCloseCalls,
                         resumeCursor, sentHeader, tailSplit, body, pos, buffer,
                         delivered, lastEventId, readerState, sepSplit>>]_vars
  /\ [][Ended =>
          UNCHANGED <<fetches, openCalls, sseErrors, onCloseCalls, delivered,
                      lastEventId, readerState>>]_vars

\* closed twice mid-stream: one onClose, no error
CloseTwiceWitness ==
  /\ closesSeen = 2
  /\ readerState = "cancelled"
  /\ delivered # <<>>
  /\ onCloseCalls = 1
  /\ sseErrors = <<>>

(***************************************************************************)
(* C23: the cursor starts as the resume cursor, which is sent as the       *)
(* resumption header, and at any time it is the id of the last delivered   *)
(* frame that carried an id (the resume cursor while there is none).       *)
(***************************************************************************)
RECURSIVE LastCarriedId(_, _)
LastCarriedId(cur, frames) ==
  IF frames = <<>> THEN cur
  ELSE LET f == frames[Len(frames)] IN
       IF f.id # <<>> THEN f.id
       ELSE LastCarriedId(cur, SubSeq(frames, 1, Len(frames) - 1))

CursorIsLastFrameId ==
  readerState # "idle" =>
    /\ sentHeader = resumeCursor
    /\ lastEventId = LastCarriedId(resumeCursor, delivered)

(***************************************************************************)
(* C24: an event that has been surfaced is never delivered again: what has *)
(* been delivered is always an initial part of the frames the body holds,  *)
(* each delivered once, so when the frames of the body carry distinct ids  *)
(* no id is surfaced twice.                                                *)
(***************************************************************************)
IsPrefix(s, t) == Len(s) <= Len(t) /\ s = SubSeq(t, 1, Len(s))

DistinctIds(frames) ==
  \A i, j \in 1..Len(frames) :
    (i < j /\ frames[i].id # <<>>) => frames[i].id # frames[j].id

HasDataLine(text) ==
  LET lines == Split(text, <<NL>>) IN
  \E i \in 1..Len(lines) : StartsWith(lines[i], DataPrefix)

DataBlocks(b) == SelectSeq(SplitEvents(b), HasDataLine)

NoDataFrameDropped ==
  /\ readerState \in {"reading", "closed", "cancelled"} => sseErrors = <<>>
  /\ readerState = "failed" =>
       sseErrors[1] \in {"fetch_rejected", "sse_connection_failed", "sse_no_body",
                         "read_failed"}
  /\ IsPrefix(delivered, FramesOf(DataBlocks(body)))
  /\ readerState = "closed" =>
       /\ Len(delivered) = Len(DataBlocks(body))
       /\ delivered = FramesOf(DataBlocks(body))
       /\ sseErrors = <<>>

\* a frame holding only an id and a comment, then a frame with data
NoDataFrameWitness ==
  /\ body = FrameNoData \o Frame1
  /\ readerState = "closed"
  /\ Len(delivered) = 1
  /\ delivered[1].id = << <<"1">> >>

(***************************************************************************)
(* C27: at normal body end the remaining buffer is parsed as one final     *)
(* frame in the step that signals completion: at most one frame is added,  *)
(* none when the buffer is blank, one when it holds a data line; a body    *)
(* with a complete frame id 1 and an unterminated frame id 2 yields        *)
(* exactly the frames 1 and 2, in that order, however it is fed.           *)
(***************************************************************************)
BodyEnds == readerState = "reading" /\ readerState' = "closed"

FinalFlush ==
  /\ [][BodyEnds =>
          /\ onCloseCalls' = onCloseCalls + 1
          /\ IsPrefix(delivered, delivered')
          /\ Len(delivered') <= Len(delivered) + 1
          /\ Trim(buffer) = <<>> => delivered' = delivered
          /\ HasDataLine(buffer) => Len(delivered') = Len(delivered) + 1]_vars
  /\ []((body = Frame1 \o Frame2Open /\ readerState = "closed") =>
          /\ Len(delivered) = 2
          /\ delivered[1].id = << <<"1">> >>
          /\ delivered[2].id = << <<"2">> >>)

\* the feed was cut inside the unterminated frame 2
FinalFlushWitness ==
  /\ body = Frame1 \o Frame2Open
  /\ tailSplit
  /\ readerState = "closed"
  /\ Len(delivered) = 2

(***************************************************************************)
(* C25: in stream(), a frame whose data is not valid JSON is dropped: the  *)
(* call changes nothing (no error is set, the stream does not end, no      *)
(* value is queued), and the values of the valid frames before and after   *)
(* it are queued and yielded in the order of their frames.                 *)
(***************************************************************************)
RECURSIVE ParsedValid(_)
ParsedValid(ps) ==
  IF ps = <<>> THEN <<>>
  ELSE (IF Head(ps) \in {"1", "2", "{}"} THEN <<JsonParse(Head(ps))>> ELSE <<>>)
       \o ParsedValid(Tail(ps))

InvalidFrameGiven ==
  /\ received' # received
  /\ received'[Len(received')] \notin {"1", "2", "{}"}

InvalidJsonDropped ==
  /\ [](yielded \o events = ParsedValid(received))
  /\ [][InvalidFrameGiven =>
          UNCHANGED <<events, done, error, resolve, gen, session, closeCalls,
                      returnQueued, pushed, yielded>>]_vars
  /\ [][error' /\ ~error => received' = received]_vars

\* an invalid frame between two valid ones; both values reached the consumer
InvalidJsonWitness ==
  /\ received = <<"1", "oops", "2">>
  /\ yielded = <<1, 2>>
  /\ ~error
  /\ session = "open"

(***************************************************************************)
(* C29: the usage of the done event, and of execute's result, holds the    *)
(* sums of the input and of the output tokens of all responses of the      *)
(* execution, one response per request made, and a total that is their     *)
(* sum.                                                                    *)
(***************************************************************************)
RECURSIVE SumInput(_)
SumInput(log) ==
  IF log = <<>> THEN 0 ELSE Head(log).input_tokens + SumInput(Tail(log))

RECURSIVE SumOutput(_)
SumOutput(log) ==
  IF log = <<>> THEN 0 ELSE Head(log).output_tokens + SumOutput(Tail(log))

UsageIsSumOfRequests ==
  /\ Len(usageLog) <= requests
  /\ (Streaming /\ emitted # <<>> /\ emitted[Len(emitted)].type = "done") =>
       LET u == emitted[Len(emitted)].usage IN
       /\ Len(usageLog) = requests
       /\ u.input_tokens = SumInput(usageLog)
       /\ u.output_tokens = SumOutput(usageLog)
       /\ u.total_tokens = SumInput(usageLog) + SumOutput(usageLog)
  /\ (mode = "execute" /\ pc = "finished") =>
       /\ Len(result) = 1
       /\ Len(usageLog) = requests
       /\ result[1].usage.inputTokens = SumInput(usageLog)
       /\ result[1].usage.outputTokens = SumOutput(usageLog)
       /\ result[1].usage.totalTokens = SumInput(usageLog) + SumOutput(usageLog)

\* two requests, each with its own usage, then done
UsageWitness ==
  /\ mode = "executeStream"
  /\ pc = "finished"
  /\ requests = 2
  /\ Len(usageLog) = 2
  /\ usageLog[1].input_tokens # usageLog[2].input_tokens
  /\ emitted[Len(emitted)].type = "done"
  /\ emitted[Len(emitted)].usage.total_tokens
       = usageLog[1].input_tokens + usageLog[2].input_tokens
         + usageLog[1].output_tokens + usageLog[2].output_tokens

(***************************************************************************)
(* C28: in a streamed execution the text and thinking events yielded are,  *)
(* in order, the text and thinking deltas the backend sent: one text event *)
(* per text delta, one thinking event per thinking delta.                  *)
(***************************************************************************)
RECURSIVE RelayedDeltas(_)
RelayedDeltas(evs) ==
  IF evs = <<>> THEN <<>>
  ELSE (CASE Head(evs).type = "text" ->
               <<[delta |-> "text_delta", text |-> Head(evs).content]>>
          [] Head(evs).type = "thinking" ->
               <<[delta |-> "thinking_delta", text |-> Head(evs).thinking]>>
          [] OTHER -> <<>>)
       \o RelayedDeltas(Tail(evs))

DeltasRelayedInOrder ==
  Streaming => RelayedDeltas(emitted) = backendDeltas

(***************************************************************************)
(* C30: executeStream on the same request, options, backend behaviour and  *)
(* tools as execute issues the same model requests and tool invocations,   *)
(* and the contents of its text events concatenate to execute's output.    *)
(***************************************************************************)
RECURSIVE StreamedText(_)
StreamedText(evs) ==
  IF evs = <<>> THEN ""
  ELSE (IF Head(evs).type = "text" THEN Head(evs).content ELSE "")
       \o StreamedText(Tail(evs))

StreamEquivalentToExecute ==
  (firstRun # <<>> /\ pc \in {"finished", "threw"}) =>
    /\ requests = firstRun[1].requests
    /\ messages = firstRun[1].messages
    /\ invoked = firstRun[1].invoked
    /\ StreamedText(emitted) = firstRun[1].output

(***************************************************************************)
(* C31: the events of a tool use come in the order tool_call_start,        *)
(* tool_result, tool_call_end: when a tool_result is yielded, the start of *)
(* its id has been yielded and its end has not.                            *)
(***************************************************************************)
ToolEventsOrdered ==
  Streaming =>
    \A i \in 1..Len(emitted) :
      emitted[i].type = "tool_result" =>
        /\ \E j \in 1..(i - 1) : IsToolEvent(emitted[j], "tool_call_start", emitted[i].id)
        /\ \A j \in 1..(i - 1) : ~IsToolEvent(emitted[j], "tool_call_end", emitted[i].id)

(***************************************************************************)
(* C32: after options.abortSignal is aborted the execution issues no       *)
(* further model request, whichever entry point started it.                *)
(***************************************************************************)
NoRequestAfterAbort ==
  [][aborted => requests' = requests]_vars

(***************************************************************************)
(* C34: the conversation sent to the model starts with the user turn and   *)
(* alternates; turns are only appended; the assistant turn is there before *)
(* any of its tools is dispatched; a dispatch round appends one            *)
(* tool-result turn with one result per tool_use id of the assistant turn  *)
(* before it, in the same order.                                           *)
(***************************************************************************)
TurnRole(i) == IF i % 2 = 1 THEN "user" ELSE "assistant"

ResultIdsOfTurn(turn) == [k \in 1..Len(turn.content) |-> turn.content[k].tool_use_id]

ConversationAlternates ==
  /\ [](/\ Len(messages) >= 1
        /\ \A i \in 1..Len(messages) : messages[i].role = TurnRole(i)
        /\ messages[1].content = "message"
        /\ \A i \in 2..Len(messages) :
             messages[i].role = "user" =>
               ResultIdsOfTurn(messages[i]) = Ids(PendingOf(messages[i - 1].content))
        /\ (pc = "dispatch") =>
             /\ messages[Len(messages)].role = "assistant"
             /\ Ids(PendingOf(messages[Len(messages)].content))
                  = ResultIds(toolResults) \o Ids(inFlight) \o Ids(pendingToolCalls)
        /\ invoked # <<>> => Len(messages) >= 2)
  /\ [][IsPrefix(messages, messages') /\ Len(messages') <= Len(messages) + 1]_vars

\* two tool calls of one assistant turn were answered by one tool-result turn
ConversationWitness ==
  /\ Len(messages) >= 3
  /\ Len(messages[3].content) = 2
  /\ Len(PendingOf(messages[2].content)) = 2
  /\ pc = "streaming"

(***************************************************************************)
(* C37: in a streamed execution no tool_call_end is yielded twice for the  *)
(* same id, also when a later content block ends after the tool-use block  *)
(* has ended.                                                              *)
(***************************************************************************)
ToolCallEndedOnce ==
  Streaming =>
    \A i \in 1..Len(emitted) : \A j \in (i + 1)..Len(emitted) :
      emitted[i].type = "tool_call_end" =>
        ~IsToolEvent(emitted[j], "tool_call_end", emitted[i].id)

(***************************************************************************)
(* C33: once close() has been called on a connection, onEvent is not       *)
(* invoked again, not even for the frames decoded from the chunk that was  *)
(* being processed when close() was called.                                *)
(***************************************************************************)
NoEventAfterClose ==
  deliveredAtClose # <<>> => Len(delivered) = deliveredAtClose[1]

(***************************************************************************)
(* C38: on one connection exactly one terminal callback is invoked, once:  *)
(* onClose after a normal end or a close(), onError after a failure; none  *)
(* while the connection is still running, and after it no onEvent, onOpen  *)
(* or further terminal callback.                                           *)
(***************************************************************************)
TerminalCalls == onCloseCalls + Len(sseErrors)

OneTerminalCallback ==
  /\ [](/\ TerminalCalls <= 1
        /\ Ended <=> TerminalCalls = 1
        /\ readerState \in {"closed", "cancelled"} => onCloseCalls = 1
        /\ readerState = "failed" => Len(sseErrors) = 1)
  /\ [][TerminalCalls = 1 =>
          UNCHANGED <<delivered, openCalls, onCloseCalls, sseErrors, readerState>>]_vars

\* close() was called by the callback of a frame that was not the last of
\* its chunk; the connection then ended with its one onClose
OneTerminalWitness ==
  /\ deliveredAtClose # <<>>
  /\ Len(delivered) > deliveredAtClose[1]
  /\ readerState = "cancelled"
  /\ onCloseCalls = 1
  /\ sseErrors = <<>>
  /\ openCalls = 1

(***************************************************************************)
(* C36: a tool call that names a tool advertised to the model for the      *)
(* execution is never answered with the tool-not-found result, whatever    *)
(* happens to the adapter's registry while the execution runs.             *)
(***************************************************************************)
NotFoundContent(name) == "Error: " \o NotFoundError(name)

AdvertisedToolDispatched ==
  \A i \in 3..Len(messages) :
    messages[i].role = "user" =>
      \A k \in 1..Len(messages[i].content) :
        LET call == PendingOf(messages[i - 1].content)[k] IN
        call.name \in advertised =>
          messages[i].content[k].content # NotFoundContent(call.name)

(***************************************************************************)
(* C35: whenever no call is running on a conversation, its messages        *)
(* alternate user and assistant turns, and each user message is followed   *)
(* by the assistant reply to it.                                           *)
(***************************************************************************)
CallRunning(c) == convCalls[c].pc \in {"pushed", "requesting"}

Quiescent(id) ==
  \A c \in 1..Len(convCalls) : convCalls[c].conv = id => ~CallRunning(c)

ConversationWellFormed ==
  \A id \in convCreated :
    Quiescent(id) =>
      LET m == convMessages[id] IN
      /\ Len(m) % 2 = 0
      /\ \A i \in 1..Len(m) : m[i].role = TurnRole(i)
      /\ \A i \in 1..Len(m) : i % 2 = 0 => m[i].content = m[i - 1].content

(***************************************************************************)
(* C39: a send to an unknown conversation id changes no conversation and   *)
(* issues no model request: sendMessageStream yields the one event         *)
(* error{conversation_not_found, recoverable false} and ends, sendMessage  *)
(* raises; the call does nothing afterwards.                               *)
(***************************************************************************)
SendToUnknown ==
  /\ Len(convCalls') = Len(convCalls) + 1
  /\ convCalls'[Len(convCalls')].conv \notin convTable

CallOver(c) == convCalls[c].pc \in {"returned", "threw", "abandoned"}

UnknownConversationRejected ==
  /\ [][SendToUnknown =>
          /\ UNCHANGED <<convTable, convCreated, convMessages, convRequests>>
          /\ SubSeq(convCalls', 1, Len(convCalls)) = convCalls
          /\ LET call == convCalls'[Len(convCalls')] IN
             IF call.kind = "sendMessageStream"
               THEN call.events = <<NotFoundEvent>> /\ call.pc = "returned"
               ELSE call.events = <<>> /\ call.pc = "threw"]_vars
  /\ [][\A c \in 1..Len(convCalls) :
          CallOver(c) => convCalls'[c] = convCalls[c]]_vars

\* a stream sent to a deleted conversation, while another conversation
\* holds a finished exchange
UnknownConversationWitness ==
  /\ \E c \in 1..Len(convCalls) :
       /\ convCalls[c].kind = "sendMessageStream"
       /\ convCalls[c].events = <<NotFoundEvent>>
       /\ convCalls[c].conv \in convCreated \ convTable
  /\ \E id \in convTable : Len(convMessages[id]) = 2
  /\ convRequests = 1
====
